---------------------------- MODULE Spec2Model ----------------------------
(***************************************************************************)
(* A model of the near/wasmer execution engine: the signature registry     *)
(* (lib/vm/src/sig_registry.rs), the universal engine's load pipeline      *)
(* (lib/engine-universal/src/engine.rs), the serialized executable format  *)
(* (lib/engine-universal/src/executable.rs, artifact.rs), compilation      *)
(* (lib/compiler-singlepass/src/compiler.rs, lib/types/src/module.rs) and  *)
(* the guest-visible behaviour of the generated code (gas metering, stack  *)
(* check, indirect calls).                                                 *)
(*                                                                         *)
(* Every subsystem has its own variables, its own initial predicate and    *)
(* next-state relation, and its own specification (SpecSig, SpecLoad, ...).*)
(* A specification leaves the variables of the other subsystems untouched. *)
(***************************************************************************)
EXTENDS Integers, Sequences, FiniteSets, TLC

VARIABLES
    \* ---- signature registry (SpecSig) ----
    registry,       \* the SignatureRegistry: [signature2index, index2signature]
    issued,         \* every <<FunctionType, index>> a register call has returned
    lastReg,        \* the last register call: [sig, idx, fresh]
    lastLookup,     \* the result of the last lookup call
    \* ---- one instance running guest code (SpecGuest) ----
    gStatus,        \* "idle" | "running" | "trapped"
    gTrap,          \* the TrapCode of the last trap, "none" before any
    gFrames,        \* the guest call stack: local function indices, top last
    stack_used,     \* native stack bytes taken by the frames of gFrames
    stack_limit,    \* InstanceConfig.stack_limit
    burnt_gas,      \* FastGasCounter.burnt_gas
    gas_limit,      \* FastGasCounter.gas_limit
    opcode_cost,    \* FastGasCounter.opcode_cost
    table,          \* the instance's funcref table: 0 is null, f a funcref
    hits,           \* calls that reached the host import host.hit
    entry_gas,      \* burnt_gas when the host made its last call of an export
    gLast,          \* the last guest step: what it was given, what it did
    \* ---- one UniversalEngine shared by several threads (SpecLoad) ----
    signatures,     \* UniversalEngineInner.signatures
    code_memory,    \* UniversalEngineInner.code_memory: the regions, oldest first
    lock,           \* the thread that holds the engine's Mutex, 0 when free
    tpc,            \* per thread: where it is in its engine call
    tjob,           \* per thread: the executable it loads and how
    tregion,        \* per thread: the region its load allocated, 0 when none
    artifacts,      \* the artifacts that loads have returned
    \* ---- serialized executables (SpecSer) ----
    buf,            \* the byte buffer at hand
    origin,         \* the executable buf was serialized from, if it was
    vres,           \* what verify_serialized said of buf
    dres,           \* what UniversalExecutableRef::deserialize made of buf
    ares,           \* what UniversalArtifact::deserialize made of buf
    \* ---- compilation (SpecCompile) ----
    NEXT_ID,        \* ModuleId's process-wide counter
    cjob,           \* the compilation in progress
    runs,           \* the compilations done, each with its serialized bytes
    \* ---- instantiation (SpecInst) ----
    iIn,            \* the module, the resolver and the InstanceConfig given
    iOut,           \* what Instance::new_with_config did with them
    \* ---- the code generator's Machine (SpecMachine) ----
    used_gprs,      \* Machine.used_gprs
    used_xmms,      \* Machine.used_xmms
    stack_offset,   \* Machine.stack_offset
    save_area_offset, \* Machine.save_area_offset: an Option
    locals_offset,  \* Machine.locals_offset
    rsp_sub,        \* bytes the emitted code has subtracted from rsp, net
    mHeld,          \* the location lists the code generator holds, newest last
    mLast,          \* the last Machine call: what it was given, what it did
    \* ---- how the engine was built (SpecHeadless) ----
    engine,         \* the build's "compiler" feature, UniversalEngineInner.compiler
    compiled,       \* what the last engine.compile call returned
    \* ---- the exports of one instance (SpecExport) ----
    xEnv,           \* per kind: the export kept in the instance's host env
    xHeld,          \* the exports the host holds
    xLast,          \* the last export operation: what it was given, what it did
    \* ---- the index spaces of one ModuleInfo (SpecIndex) ----
    import_counts,  \* ModuleInfo.import_counts
    ixLast,         \* the last index conversion: what it was given, what it gave
    \* ---- one compiled function's prologue and epilogue at run time (SpecPrologue) ----
    pfn,            \* the function: its locals, its convention, the code emitted
    pcpu,           \* the registers, the stack memory and rsp, relative to rbp
    \* ---- one PartialSumMap (SpecPsm) ----
    psm,            \* the PartialSumMap: [keys, values]
    psmLast         \* the last call on the map: what it was given, what it gave

sigVars == <<registry, issued, lastReg, lastLookup>>
guestCfg == <<stack_limit, gas_limit, opcode_cost, table>>
guestVars ==
    <<gStatus, gTrap, gFrames, stack_used, burnt_gas, hits, entry_gas, gLast, guestCfg>>

loadVars == <<signatures, code_memory, lock, tpc, tjob, tregion, artifacts>>

serVars == <<buf, origin, vres, dres, ares>>
compileVars == <<NEXT_ID, cjob, runs>>

instVars == <<iIn, iOut>>

frameVars == <<save_area_offset, locals_offset>>

machineVars == <<used_gprs, used_xmms, stack_offset, frameVars, rsp_sub, mHeld, mLast>>

engineVars == <<engine, compiled>>

exportVars == <<xEnv, xHeld, xLast>>

indexVars == <<import_counts, ixLast>>

cpuVars == <<pfn, pcpu>>

psmVars == <<psm, psmLast>>

vars ==
    <<sigVars, guestVars, loadVars, serVars, compileVars, instVars, machineVars,
      engineVars, exportVars, indexVars, cpuVars, psmVars>>

\* What an action of one subsystem leaves alone.
sigOthers ==
    <<guestVars, loadVars, serVars, compileVars, instVars, machineVars,
      engineVars, exportVars, indexVars, cpuVars, psmVars>>
guestOthers ==
    <<sigVars, loadVars, serVars, compileVars, instVars, machineVars,
      engineVars, exportVars, indexVars, cpuVars, psmVars>>
loadOthers ==
    <<sigVars, guestVars, serVars, compileVars, instVars, machineVars,
      engineVars, exportVars, indexVars, cpuVars, psmVars>>
serOthers ==
    <<sigVars, guestVars, loadVars, compileVars, instVars, machineVars,
      engineVars, exportVars, indexVars, cpuVars, psmVars>>
compileOthers ==
    <<sigVars, guestVars, loadVars, serVars, instVars, machineVars,
      engineVars, exportVars, indexVars, cpuVars, psmVars>>
instOthers ==
    <<sigVars, guestVars, loadVars, serVars, compileVars, machineVars,
      engineVars, exportVars, indexVars, cpuVars, psmVars>>
engineOthers ==
    <<sigVars, guestVars, loadVars, serVars, compileVars, instVars, machineVars,
      exportVars, indexVars, cpuVars, psmVars>>
exportOthers ==
    <<sigVars, guestVars, loadVars, serVars, compileVars, instVars, machineVars,
      engineVars, indexVars, cpuVars, psmVars>>
indexOthers ==
    <<sigVars, guestVars, loadVars, serVars, compileVars, instVars, machineVars,
      engineVars, exportVars, cpuVars, psmVars>>
cpuOthers ==
    <<sigVars, guestVars, loadVars, serVars, compileVars, instVars, machineVars,
      engineVars, exportVars, indexVars, psmVars>>
psmOthers ==
    <<sigVars, guestVars, loadVars, serVars, compileVars, instVars, machineVars,
      engineVars, exportVars, indexVars, cpuVars>>
machineOthers ==
    <<sigVars, guestVars, loadVars, serVars, compileVars, instVars,
      engineVars, exportVars, indexVars, cpuVars, psmVars>>

-----------------------------------------------------------------------------
(* Helpers *)

\* Option<FunctionType>: Some(v), or NoSig for None.
NoType == [params |-> <<>>, results |-> <<>>]
Some(v) == [some |-> TRUE, val |-> v]
NoSig == [some |-> FALSE, val |-> NoType]

\* All sequences over S of length at most n.
SeqsUpTo(S, n) == UNION {[1..k -> S] : k \in 0..n}

-----------------------------------------------------------------------------
(* Function types *)

\* Value types that occur in the modelled signatures.
ValTypes == {"I32", "I64"}

\* Bound: the largest number of parameters of a modelled function type.
MaxParams == 1

\* The singlepass compiler rejects multi-value modules, so a function type
\* has at most one result.
MaxResults == 1

\* FunctionType: params and results, compared structurally.
FunctionType(p, r) == [params |-> p, results |-> r]

FuncTypes ==
    {FunctionType(p, r) : p \in SeqsUpTo(ValTypes, MaxParams),
                          r \in SeqsUpTo(ValTypes, MaxResults)}

-----------------------------------------------------------------------------
(* SignatureRegistry *)

\* Bound: the number of distinct signatures a modelled registry takes.
MaxSigs == 2

\* Bound: the width in bits of the modelled VMSharedSignatureIndex (u32 in
\* the code).
IndexBits == 3

\* u32::MAX of the modelled index width.
U32_MAX == 2^IndexBits - 1

\* SignatureRegistry::new
SignatureRegistry_new == [signature2index |-> <<>>, index2signature |-> <<>>]

\* A register that forgets to push the signature onto index2signature: the
\* length does not advance and the next new signature gets the same index.
register_noPush(reg, sig) ==
    LET len == Len(reg.index2signature) IN
    IF sig \in DOMAIN reg.signature2index
    THEN [reg |-> reg, idx |-> reg.signature2index[sig], fresh |-> FALSE,
          panic |-> FALSE]
    ELSE IF len > U32_MAX
    THEN [reg |-> reg, idx |-> len, fresh |-> FALSE, panic |-> TRUE]
    ELSE [reg |-> [signature2index |-> (sig :> len) @@ reg.signature2index,
                   index2signature |-> reg.index2signature],
          idx |-> len, fresh |-> TRUE, panic |-> FALSE]

\* SignatureRegistry::register: the index of sig, minted as the current
\* length of index2signature when sig is not yet known.  Indices are 0-based
\* as in the code; index2signature[i + 1] is the signature with index i.
\* u32::try_from(len).unwrap() panics, before anything is inserted, when the
\* length is beyond u32::MAX.
register(reg, sig) ==
    LET len == Len(reg.index2signature) IN
    IF sig \in DOMAIN reg.signature2index
    THEN [reg |-> reg, idx |-> reg.signature2index[sig], fresh |-> FALSE,
          panic |-> FALSE]
    ELSE IF len > U32_MAX
    THEN [reg |-> reg, idx |-> len, fresh |-> FALSE, panic |-> TRUE]
    ELSE [reg |-> [signature2index |-> (sig :> len) @@ reg.signature2index,
                   index2signature |-> Append(reg.index2signature, sig)],
          idx |-> len, fresh |-> TRUE, panic |-> FALSE]

\* A lookup that counts the indices from one.
lookup_oneBased(reg, idx) ==
    IF idx >= 1 /\ idx <= Len(reg.index2signature)
    THEN Some(reg.index2signature[idx])
    ELSE NoSig

\* SignatureRegistry::lookup: index2signature.get(idx)
lookup(reg, idx) ==
    IF idx < Len(reg.index2signature)
    THEN Some(reg.index2signature[idx + 1])
    ELSE NoSig

-----------------------------------------------------------------------------
(* The state of a subsystem that a specification does not exercise *)

NoStep == [op |-> "none", a |-> 0, b |-> 0, pre |-> 0, out |-> "none"]

InitGuestIdle ==
    /\ gStatus = "idle"
    /\ gTrap = "none"
    /\ gFrames = <<>>
    /\ stack_used = 0
    /\ stack_limit = 0
    /\ burnt_gas = 0
    /\ gas_limit = 0
    /\ opcode_cost = 0
    /\ table = <<>>
    /\ hits = 0
    /\ entry_gas = 0
    /\ gLast = NoStep

\* The threads that share the engine.
Threads == {1, 2}

NoJob == [exe |-> 0, kind |-> "none"]

InitLoadIdle ==
    /\ signatures = SignatureRegistry_new
    /\ code_memory = <<>>
    /\ lock = 0
    /\ tpc = [t \in Threads |-> "idle"]
    /\ tjob = [t \in Threads |-> NoJob]
    /\ tregion = [t \in Threads |-> 0]
    /\ artifacts = {}

\* A compiled executable as far as its serialized form goes: the bytes of
\* its function bodies, the bytes of its archived function names and the
\* cpu features.
Executable(body, names, cpu) == [body |-> body, names |-> names, cpu_features |-> cpu]

NoExecutable == [some |-> FALSE, val |-> Executable(<<>>, <<>>, 0)]

NoResult == [tag |-> "none", exe |-> NoExecutable]

InitSerIdle ==
    /\ buf = <<>>
    /\ origin = NoExecutable
    /\ vres = "none"
    /\ dres = NoResult
    /\ ares = "none"

NoCompile == [busy |-> FALSE, w |-> 0, id |-> 0, names |-> <<>>, finished |-> <<>>,
              results |-> <<>>]

InitCompileIdle ==
    /\ NEXT_ID = 0
    /\ cjob = NoCompile
    /\ runs = {}

\* Nothing has been instantiated and nothing is asked for.
NoOutcome == [tag |-> "none", err |-> "none", at |-> 0, why |-> "none", resolved |-> 0,
              reached |-> {}, exports |-> {}]

InitInstIdle ==
    /\ iIn = [imports |-> <<>>, resolver |-> <<>>, opcode_cost |-> 0, gas_limit |-> 0,
              start |-> <<>>, segments_fit |-> TRUE, host_env_ok |-> TRUE,
              exports |-> {}]
    /\ iOut = NoOutcome

\* Machine::new: no register in use, nothing on the stack.
Machine_new == [used_gprs |-> {}, used_xmms |-> {}, stack_offset |-> 0]

NoCall == [op |-> "none", out |-> "none", before |-> Machine_new, locs |-> <<>>,
           paired |-> FALSE]

InitMachineIdle ==
    /\ used_gprs = {}
    /\ used_xmms = {}
    /\ stack_offset = 0
    /\ save_area_offset = {}
    /\ locals_offset = 0
    /\ rsp_sub = 0
    /\ mHeld = <<>>
    /\ mLast = NoCall

\* No compile call was made yet.
NoCompiled == [called |-> FALSE, err |-> "none", exe |-> {}]

\* An engine made by UniversalEngine::new in a build with the "compiler"
\* feature.
InitEngineIdle ==
    /\ engine = [feature |-> TRUE, compiler |-> {"singlepass"}]
    /\ compiled = NoCompiled

\* The kinds of export.
ExportKinds == {"memory", "table", "global", "function"}

NoExportCall == [op |-> "none", given |-> {}, left |-> {}, out |-> {}]

\* No instance was made yet.
InitExportIdle ==
    /\ xEnv = [k \in ExportKinds |-> {}]
    /\ xHeld = {}
    /\ xLast = NoExportCall

NoConversion == [op |-> "none", arg |-> 0, out |-> {}, imported |-> FALSE]

\* A module that imports nothing, no conversion made.
InitIndexIdle ==
    /\ import_counts = [functions |-> 0, tables |-> 0, memories |-> 0, globals |-> 0]
    /\ ixLast = NoConversion

\* No function is being compiled.
InitCpuIdle ==
    /\ pfn = [phase |-> "none"]
    /\ pcpu = [phase |-> "none"]

\* PartialSumMap::new
PartialSumMap_new == [keys |-> <<>>, values |-> <<>>]

\* No call on the map yet; pushes lists the <<count, value>> of the pushes
\* with a count above zero that returned Ok.
NoPsmCall ==
    [op |-> "none", arg |-> 0, value |-> 0, out |-> {}, err |-> "none",
     before |-> PartialSumMap_new, pushes |-> <<>>]

\* An empty map, no call made.
InitPsmIdle ==
    /\ psm = PartialSumMap_new
    /\ psmLast = NoPsmCall

-----------------------------------------------------------------------------
(* SpecSig: calls on one SignatureRegistry *)

InitSigIdle ==
    /\ registry = SignatureRegistry_new
    /\ issued = {}
    /\ lastReg = [called |-> FALSE, sig |-> NoType, idx |-> 0, fresh |-> FALSE,
                  panic |-> FALSE]
    /\ lastLookup = NoSig

InitSig ==
    InitSigIdle /\ InitGuestIdle /\ InitLoadIdle /\ InitSerIdle /\ InitCompileIdle
    /\ InitInstIdle
    /\ InitMachineIdle
    /\ InitEngineIdle
    /\ InitExportIdle
    /\ InitIndexIdle
    /\ InitCpuIdle /\ InitPsmIdle

\* registry.register(sig); a call that panics returns no index.
RegisterCall(sig) ==
    /\ LET r == register(registry, sig) IN
        /\ registry' = r.reg
        /\ issued' = IF r.panic THEN issued ELSE issued \cup {<<sig, r.idx>>}
        /\ lastReg' = [called |-> TRUE, sig |-> sig, idx |-> r.idx, fresh |-> r.fresh,
                       panic |-> r.panic]
    /\ UNCHANGED <<lastLookup, sigOthers>>

\* registry.register(sig), of at most MaxSigs distinct types.
Register(sig) ==
    /\ \/ sig \in DOMAIN registry.signature2index
       \/ Len(registry.index2signature) < MaxSigs
    /\ RegisterCall(sig)

\* registry.lookup(idx)
Lookup(idx) ==
    /\ lastLookup' = lookup(registry, idx)
    /\ UNCHANGED <<registry, issued, lastReg, sigOthers>>

NextSig ==
    \/ \E sig \in FuncTypes : Register(sig)
    \/ \E idx \in 0..MaxSigs : Lookup(idx)

SpecSig == InitSig /\ [][NextSig]_vars

\* C1: two register calls on one registry return the same
\* VMSharedSignatureIndex if and only if they were given equal FunctionTypes:
\* an equal type never gets a second index, distinct types never share one.
C1_SameIndexIffEqualType ==
    \A a \in issued : \A b \in issued : (a[2] = b[2]) <=> (a[1] = b[1])

\* A state where a known type has just been registered again while another
\* type is registered too.
C1_Witness ==
    /\ Cardinality(issued) >= 2
    /\ lastReg.called
    /\ ~lastReg.fresh

\* C22: after register calls that introduced n distinct types, the issued
\* indices are exactly 0..n-1 in the order of first registration, lookup(i)
\* is the type first registered at index i for i < n and None for i >= n,
\* and registering a known type changes nothing in the registry.
C22_DenseIndices ==
    LET n == Cardinality({a[1] : a \in issued}) IN
    /\ {a[2] : a \in issued} = 0..(n - 1)
    /\ Len(registry.index2signature) = n
    /\ (lastReg.called /\ lastReg.fresh) => lastReg.idx = n - 1
    /\ \A a \in issued : lookup(registry, a[2]) = Some(a[1])
    /\ \A i \in n..(MaxSigs + 1) : lookup(registry, i) = NoSig
    /\ \A a \in issued : register(registry, a[1]).reg = registry
    /\ lastLookup # NoSig => \E a \in issued : lastLookup = Some(a[1])

\* Every index the bound allows is issued, a known type has just been
\* registered again, and the last lookup gave the type registered second.
C22_Witness ==
    /\ Len(registry.index2signature) = MaxSigs
    /\ lastReg.called
    /\ ~lastReg.fresh
    /\ lastReg.idx = 0
    /\ lastLookup = Some(registry.index2signature[MaxSigs])

-----------------------------------------------------------------------------
(* SpecSigCap: one SignatureRegistry filled to the end of its index range. *)
(*                                                                         *)
(* The types registered are told apart by their number of parameters; a    *)
(* call registers a known type or the next type that is not known yet.     *)

\* The k-th type: k parameters, no result.
TypeNo(k) == FunctionType([i \in 1..k |-> "I32"], <<>>)

\* registry.register of the k-th type.
RegisterNo(k) ==
    /\ k <= Len(registry.index2signature)
    /\ RegisterCall(TypeNo(k))

NextSigCap ==
    \/ \E k \in 0..(U32_MAX + 1) : RegisterNo(k)
    \/ \E idx \in 0..(U32_MAX + 1) : Lookup(idx)

SpecSigCap == InitSig /\ [][NextSigCap]_vars

\* C23: register succeeds for each of the first 2^32 - 1 distinct
\* signatures and panics on the registration of any further distinct
\* signature; registering a known type never panics.
C23_PanicsBeyondCap ==
    lastReg.called =>
        /\ lastReg.fresh => Len(registry.index2signature) <= U32_MAX
        /\ lastReg.panic =>
            /\ lastReg.sig \notin DOMAIN registry.signature2index
            /\ Len(registry.index2signature) >= U32_MAX
        /\ (lastReg.sig \in DOMAIN registry.signature2index) => ~lastReg.panic

-----------------------------------------------------------------------------
(* SpecGuest: one instance executing compiled guest code.                  *)
(*                                                                         *)
(* The guest module has NumFuncs local functions; a running guest may at   *)
(* every step execute any of: a direct call, an indirect call through the  *)
(* table, an inlined gas call with a literal argument, a call of the host  *)
(* import host.hit, or a return.  The host may call an export whenever no  *)
(* guest code is running, also after a trap.                               *)

\* Bound: the largest stack_limit an instance is configured with.
MaxStackLimit == 3

\* Bound: the width in bits of the modelled gas counters (u64 in the code).
CounterBits == 3

\* Bound: the number of host.hit calls that are followed.
MaxHits == 1

\* The local functions of the guest module.
Funcs == {1, 2}

\* The guest's funcref table after instantiation: a funcref to function 1, a
\* null entry, a funcref to function 2.
GuestTable == <<1, 0, 2>>

\* u64::MAX of the modelled counter width.
U64_MAX == 2^CounterBits - 1

\* i32::MAX, at the scale of the counters.
I32_MAX == 2^(CounterBits - 1) - 1

Min(a, b) == IF a <= b THEN a ELSE b

\* A frame that takes no native stack.
FrameSize_none(f) == 0

\* The native stack bytes the frame of local function f takes.
FrameSize(f) == f

\* The FunctionType of local function f: odd functions are ()->(i32), even
\* ones (i32)->(i32).
FuncSig(f) ==
    IF f % 2 = 1 THEN FunctionType(<<>>, <<"I32">>)
                 ELSE FunctionType(<<"I32">>, <<"I32">>)

\* The types an indirect call site may expect.
CallSiteTypes ==
    {FunctionType(<<>>, <<"I32">>), FunctionType(<<"I32">>, <<"I32">>)}

\* The engine's registry after loading the module: its signatures are
\* registered in order.
RECURSIVE RegisterAll(_, _)
RegisterAll(reg, sigs) ==
    IF sigs = <<>> THEN reg
    ELSE RegisterAll(register(reg, Head(sigs)).reg, Tail(sigs))

GuestSignatures ==
    <<FunctionType(<<>>, <<"I32">>), FunctionType(<<"I32">>, <<"I32">>),
      FunctionType(<<>>, <<>>)>>

GuestRegistry == RegisterAll(SignatureRegistry_new, GuestSignatures)

\* The VMSharedSignatureIndex of a function type of the guest module.
SharedIndex(ty) == GuestRegistry.signature2index[ty]

\* The check of the function prologue, skipped: every call is let in.
stack_check_none(used, size, limit) == FALSE

\* The check of the function prologue with the comparison off by one: a frame
\* that exactly fits is trapped.
stack_check_offByOne(used, size, limit) == used + size >= limit

\* The check of the function prologue: TRUE when the new frame would take
\* the stack beyond the limit.
stack_check(used, size, limit) == used + size > limit

\* An indirect call that compares no signature.
call_indirect_check_noSig(tbl, idx, expected) ==
    IF idx >= Len(tbl) THEN "TableOutOfBounds"
    ELSE IF tbl[idx + 1] = 0 THEN "IndirectCallToNull"
    ELSE "ok"

\* The checks an indirect call makes before it calls: the bounds check
\* against the table length, the null check of the entry, and the compare of
\* the entry's VMSharedSignatureIndex with the one the call site expects.
call_indirect_check(tbl, idx, expected) ==
    IF idx >= Len(tbl) THEN "TableOutOfBounds"
    ELSE IF tbl[idx + 1] = 0 THEN "IndirectCallToNull"
    ELSE IF SharedIndex(FuncSig(tbl[idx + 1])) # expected THEN "BadSignature"
    ELSE "ok"

\* A gas charge that wraps around instead of saturating.
gas_add_wrapping(burnt, arg, cost) == (burnt + arg * cost) % (U64_MAX + 1)

\* The gas intrinsic's charge: burnt_gas + arg * opcode_cost, saturating at
\* u64::MAX.
gas_add(burnt, arg, cost) == Min(burnt + arg * cost, U64_MAX)

\* A limit check that also trips when the limit is reached exactly.
gas_exceeded_atLimit(burnt, limit) == burnt >= limit

\* The gas intrinsic's limit check.
gas_exceeded(burnt, limit) == burnt > limit

InitGuest ==
    /\ gStatus = "idle"
    /\ gTrap = "none"
    /\ gFrames = <<>>
    /\ stack_used = 0
    /\ stack_limit \in {MaxStackLimit - 1, MaxStackLimit}
    /\ burnt_gas = 0
    /\ gas_limit \in {0, U64_MAX - 2, U64_MAX}
    /\ opcode_cost \in {1, 2}
    /\ table = GuestTable
    /\ hits = 0
    /\ entry_gas = 0
    /\ gLast = NoStep
    /\ InitSigIdle
    /\ InitLoadIdle
    /\ InitSerIdle
    /\ InitCompileIdle
    /\ InitInstIdle
    /\ InitMachineIdle
    /\ InitEngineIdle
    /\ InitExportIdle
    /\ InitIndexIdle
    /\ InitCpuIdle /\ InitPsmIdle

\* A trap that leaves the frames of the trapped call on the stack.
Trap_noUnwind(code) ==
    /\ gStatus' = "trapped"
    /\ gTrap' = code
    /\ UNCHANGED <<gFrames, stack_used>>

\* A trap: the guest stops and its frames are unwound to the host.
Trap(code) ==
    /\ gStatus' = "trapped"
    /\ gTrap' = code
    /\ gFrames' = <<>>
    /\ stack_used' = 0

\* Function entry of f: the prologue's stack check, then the body.
Enter(f, op, a, b) ==
    IF stack_check(stack_used, FrameSize(f), stack_limit)
    THEN /\ Trap("StackOverflow")
         /\ gLast' = [op |-> op, a |-> a, b |-> b, pre |-> stack_used,
                      out |-> "StackOverflow"]
    ELSE /\ gStatus' = "running"
         /\ gFrames' = Append(gFrames, f)
         /\ stack_used' = stack_used + FrameSize(f)
         /\ gLast' = [op |-> op, a |-> a, b |-> b, pre |-> stack_used,
                      out |-> "entered"]
         /\ UNCHANGED gTrap

\* The host calls the exported function f.
HostInvoke(f) ==
    /\ gStatus \in {"idle", "trapped"}
    /\ Enter(f, "invoke", f, 0)
    /\ entry_gas' = burnt_gas
    /\ UNCHANGED <<burnt_gas, hits, guestCfg, guestOthers>>

\* call f: a direct call of a local function.
Call(f) ==
    /\ gStatus = "running"
    /\ Enter(f, "call", f, 0)
    /\ UNCHANGED <<burnt_gas, hits, entry_gas, guestCfg, guestOthers>>

\* call_indirect: table index idx, expected type ty at the call site.
CallIndirect(idx, ty) ==
    /\ gStatus = "running"
    /\ LET r == call_indirect_check(table, idx, SharedIndex(ty)) IN
        IF r = "ok"
        THEN Enter(table[idx + 1], "call_indirect", idx, SharedIndex(ty))
        ELSE /\ Trap(r)
             /\ gLast' = [op |-> "call_indirect", a |-> idx, b |-> SharedIndex(ty),
                          pre |-> stack_used, out |-> r]
    /\ UNCHANGED <<burnt_gas, hits, entry_gas, guestCfg, guestOthers>>

\* call $gas (const arg): the inlined gas intrinsic.
Gas(arg) ==
    /\ gStatus = "running"
    /\ LET new == gas_add(burnt_gas, arg, opcode_cost) IN
        /\ burnt_gas' = new
        /\ IF gas_exceeded(new, gas_limit)
           THEN /\ Trap("GasLimitExceeded")
                /\ gLast' = [op |-> "gas", a |-> arg, b |-> hits, pre |-> burnt_gas,
                             out |-> "GasLimitExceeded"]
           ELSE /\ gLast' = [op |-> "gas", a |-> arg, b |-> hits, pre |-> burnt_gas,
                             out |-> "ok"]
                /\ UNCHANGED <<gStatus, gTrap, gFrames, stack_used>>
    /\ UNCHANGED <<hits, entry_gas, guestCfg, guestOthers>>

\* call $hit: a call of the host import host.hit.
Hit ==
    /\ gStatus = "running"
    /\ hits < MaxHits
    /\ hits' = hits + 1
    /\ gLast' = [op |-> "hit", a |-> 0, b |-> 0, pre |-> hits, out |-> "ok"]
    /\ UNCHANGED <<gStatus, gTrap, gFrames, stack_used, burnt_gas, entry_gas,
                   guestCfg, guestOthers>>

\* A return that keeps the frame's stack taken.
Return_keepsStack ==
    /\ gStatus = "running"
    /\ LET f == gFrames[Len(gFrames)] IN
        /\ gFrames' = SubSeq(gFrames, 1, Len(gFrames) - 1)
        /\ stack_used' = stack_used
        /\ gStatus' = IF Len(gFrames) = 1 THEN "idle" ELSE "running"
        /\ gLast' = [op |-> "return", a |-> f, b |-> 0, pre |-> stack_used, out |-> "ok"]
    /\ UNCHANGED <<gTrap, burnt_gas, hits, entry_gas, guestCfg, guestOthers>>

\* return: the top frame ends and gives its stack back.
Return ==
    /\ gStatus = "running"
    /\ LET f == gFrames[Len(gFrames)] IN
        /\ gFrames' = SubSeq(gFrames, 1, Len(gFrames) - 1)
        /\ stack_used' = stack_used - FrameSize(f)
        /\ gStatus' = IF Len(gFrames) = 1 THEN "idle" ELSE "running"
        /\ gLast' = [op |-> "return", a |-> f, b |-> 0, pre |-> stack_used, out |-> "ok"]
    /\ UNCHANGED <<gTrap, burnt_gas, hits, entry_gas, guestCfg, guestOthers>>

\* The literal arguments of the modelled gas calls.
GasArgs == {0, 1, 2, U64_MAX}

NextGuest ==
    \/ \E f \in Funcs : HostInvoke(f)
    \/ \E f \in Funcs : Call(f)
    \/ \E idx \in 0..Len(table) : \E ty \in CallSiteTypes : CallIndirect(idx, ty)
    \/ \E arg \in GasArgs : Gas(arg)
    \/ Hit
    \/ Return

SpecGuest == InitGuest /\ [][NextGuest]_vars

\* The function an entering step of gLast called.
Callee(step) == IF step.op = "call_indirect" THEN table[step.a + 1] ELSE step.a

\* The sum of the frame sizes of a call stack.
RECURSIVE FramesSize(_)
FramesSize(fs) == IF fs = <<>> THEN 0 ELSE FrameSize(Head(fs)) + FramesSize(Tail(fs))

\* C2: an indirect call transfers control to the callee only if the table
\* index is within the table length, the entry is non-null and the entry's
\* VMSharedSignatureIndex equals the one expected at the call site; on a
\* signature mismatch the guest traps BadSignature and the callee is not
\* entered.
C2_IndirectCallChecked ==
    gLast.op = "call_indirect" =>
        LET inb == gLast.a < Len(table)
            nonnull == inb /\ table[gLast.a + 1] # 0
            same == nonnull /\ SharedIndex(FuncSig(table[gLast.a + 1])) = gLast.b
        IN  /\ gLast.out = "entered" =>
                /\ same
                /\ gStatus = "running"
                /\ gFrames[Len(gFrames)] = table[gLast.a + 1]
            /\ (nonnull /\ ~same) =>
                /\ gLast.out = "BadSignature"
                /\ gStatus = "trapped"
                /\ gTrap = "BadSignature"
                /\ gFrames = <<>>

\* An indirect call through an entry of another type has just trapped.
C2_Witness ==
    /\ gLast.op = "call_indirect"
    /\ gLast.out = "BadSignature"
    /\ gLast.a < Len(table)
    /\ table[gLast.a + 1] # 0

\* The rule of one gas call: burnt_gas takes the saturated charge; the call
\* traps GasLimitExceeded exactly when the new burnt_gas is strictly greater
\* than gas_limit, and then nothing of the guest has run after it.
GasCallRule ==
    gLast.op = "gas" =>
        LET new == Min(gLast.pre + gLast.a * opcode_cost, U64_MAX) IN
        /\ burnt_gas = new
        /\ new > gas_limit =>
            /\ gLast.out = "GasLimitExceeded"
            /\ gStatus = "trapped"
            /\ gTrap = "GasLimitExceeded"
            /\ hits = gLast.b
        /\ new <= gas_limit =>
            /\ gLast.out = "ok"
            /\ gStatus = "running"

\* C3 as stated: the rule of one gas call, and hence burnt_gas <= gas_limit
\* whenever the guest is running.
C3_Original ==
    /\ GasCallRule
    /\ gStatus = "running" => burnt_gas <= gas_limit

\* C3 as amended: the rule of one gas call, and burnt_gas <= gas_limit
\* whenever the guest is running in a call of the host that was entered with
\* burnt_gas <= gas_limit.
C3_GasLimit ==
    /\ GasCallRule
    /\ (gStatus = "running" /\ entry_gas <= gas_limit) => burnt_gas <= gas_limit

\* A gas call has just crossed the limit and trapped, after a host call.
C3_Witness ==
    /\ gLast.op = "gas"
    /\ gLast.out = "GasLimitExceeded"
    /\ gLast.pre <= gas_limit
    /\ burnt_gas > gas_limit
    /\ hits > 0

\* C4: the stack check runs once per call, at function entry: a call whose
\* frame would take the stack beyond stack_limit traps StackOverflow and its
\* callee is not entered, and a call whose frame fits is entered.
C4_StackCheckAtEntry ==
    /\ stack_used = FramesSize(gFrames)
    /\ stack_used <= stack_limit
    /\ gLast.out \in {"entered", "StackOverflow"} =>
        LET f == Callee(gLast)
            fits == gLast.pre + FrameSize(f) <= stack_limit
        IN  /\ gLast.out = "StackOverflow" <=> ~fits
            /\ gLast.out = "StackOverflow" =>
                /\ gStatus = "trapped"
                /\ gTrap = "StackOverflow"
                /\ gFrames = <<>>
            /\ gLast.out = "entered" =>
                /\ gStatus = "running"
                /\ gFrames[Len(gFrames)] = f
                /\ stack_used = gLast.pre + FrameSize(f)

\* A nested call has just been refused by the stack check.
C4_Witness ==
    /\ gLast.op = "call"
    /\ gLast.out = "StackOverflow"
    /\ gLast.pre > 0

\* C14: a trap raised during a call of an exported function is handed to
\* the host as an error naming the trap, and leaves the instance usable: no
\* frame of the trapped call stays behind, and a later call of any export
\* whose frame fits the stack limit enters that function.
C14_TrapLeavesUsable ==
    gStatus = "trapped" =>
        /\ gTrap \in {"BadSignature", "StackOverflow", "GasLimitExceeded",
                      "TableOutOfBounds", "IndirectCallToNull"}
        /\ gLast.out = gTrap
        /\ gFrames = <<>>
        /\ stack_used = 0
        /\ \A f \in Funcs :
              ~stack_check(0, FrameSize(f), stack_limit) =>
                  ENABLED (HostInvoke(f) /\ gStatus' = "running"
                           /\ gFrames' = <<f>>)

\* After a BadSignature trap the host has called an export again, and the
\* guest is running it.
C14_Witness ==
    /\ gTrap = "BadSignature"
    /\ gLast.op = "invoke"
    /\ gLast.out = "entered"
    /\ gStatus = "running"

\* A guest of calls and returns only, as the one of stack_limit_ok: the
\* host calls an export, functions call functions and return.
NextCalls ==
    \/ \E f \in Funcs : HostInvoke(f)
    \/ \E f \in Funcs : Call(f)
    \/ Return

SpecCalls == InitGuest /\ [][NextCalls]_vars

\* C34: the stack a call takes is given back when it returns, so calls
\* made one after the other do not add up: a return leaves in use exactly
\* the stack of the frames still live, and every call, by the host or by
\* the guest, whose frame fits the limit on top of the live frames is
\* entered, however many calls returned before it.
C34_BudgetGivenBack ==
    [][/\ Return => /\ stack_used' = stack_used - FrameSize(gFrames[Len(gFrames)])
                    /\ stack_used' = FramesSize(gFrames')
       /\ \A f \in Funcs :
            ((HostInvoke(f) \/ Call(f))
             /\ FramesSize(gFrames) + FrameSize(f) <= stack_limit)
            => /\ gStatus' = "running"
               /\ gFrames' = Append(gFrames, f)]_vars

\* A call that filled the stack to the limit has returned to its caller,
\* which is still running.
C34_Witness ==
    /\ gLast.op = "return"
    /\ gLast.pre = stack_limit
    /\ gLast.a = 2
    /\ gStatus = "running"
    /\ stack_used = stack_limit - FrameSize(2)

\* A guest that only calls: the host calls an export, and every function
\* running calls a function again and never returns.
NextRecursion ==
    \/ \E f \in Funcs : HostInvoke(f)
    \/ \E f \in Funcs : Call(f)

\* The processor keeps running the guest: a call that is due is made.
SpecRecursion ==
    InitGuest /\ [][NextRecursion]_vars /\ WF_vars(\E f \in Funcs : Call(f))

\* C35: guest recursion without end does not run forever: under every
\* configured stack_limit the nesting never gets deeper than the limit
\* allows, and a running guest that keeps calling ends in a StackOverflow
\* trap.
C35_RecursionEnds ==
    /\ [](Len(gFrames) <= stack_limit)
    /\ (gStatus = "running") ~> (gStatus = "trapped" /\ gTrap = "StackOverflow")

\* A nested call made with the whole stack in use has trapped.
C35_Witness ==
    /\ gStatus = "trapped"
    /\ gTrap = "StackOverflow"
    /\ gLast.op = "call"
    /\ gLast.pre = stack_limit

\* A guest that loops as the start function of test_gas_limiting_in_start:
\* the host enters it, and it makes gas calls and calls host.hit, with no
\* call of a local function and no return.
NextGasLoop ==
    \/ \E f \in Funcs : HostInvoke(f)
    \/ \E arg \in GasArgs : Gas(arg)
    \/ Hit

\* A gas call of the loop with a positive literal.
PositiveGas == \E arg \in GasArgs \ {0} : Gas(arg)

\* The processor keeps running the loop, and every iteration of the loop
\* has a gas call with a positive charge: such a call is made again and
\* again as long as the guest runs.
SpecGasLoop == InitGuest /\ [][NextGasLoop]_vars /\ WF_vars(PositiveGas)

GasTrapped == gStatus = "trapped" /\ gTrap = "GasLimitExceeded"

\* C36 as stated: the loop traps GasLimitExceeded under every gas_limit.
C36_Original == (gStatus = "running") ~> GasTrapped

\* C36 as amended: a loop that makes on every iteration a gas call with a
\* positive charge traps GasLimitExceeded under every gas_limit below
\* u64::MAX.
C36_LoopTraps == (gStatus = "running" /\ gas_limit < U64_MAX) ~> GasTrapped

\* The loop was stopped by a gas call under a limit just below u64::MAX,
\* after the host import was called.
C36_Witness ==
    /\ GasTrapped
    /\ gLast.op = "gas"
    /\ gas_limit = U64_MAX - 2
    /\ gLast.pre > 0
    /\ hits = MaxHits

-----------------------------------------------------------------------------
(* SpecLoad: threads loading executables into one UniversalEngine.         *)
(*                                                                         *)
(* A load is load_owned or load_archived followed by load_common.  Each    *)
(* statement group of load_common is one step of the loading thread, taken *)
(* while it holds the engine's Mutex.                                      *)

\* Bound: the number of code-memory regions the modelled engine comes to hold.
MaxRegions == 2

\* The executables that are loaded: the module's signatures, the signature
\* index of each function (imported functions first) and the number of
\* imported functions.
Executables ==
    <<[signatures |-> <<FunctionType(<<>>, <<>>), FunctionType(<<"I32">>, <<>>)>>,
       functions |-> <<2, 1>>, imported |-> 1],
      [signatures |-> <<FunctionType(<<"I32">>, <<>>), FunctionType(<<>>, <<"I32">>)>>,
       functions |-> <<2>>, imported |-> 0]>>

\* The signatures of the imported functions of an executable, in order.
ImportSigs(e) == [i \in 1..e.imported |-> e.signatures[e.functions[i]]]

\* The signatures of the local functions of an executable, in order:
\* module.func_index(idx) is import_counts.functions + idx.
LocalSigs(e) ==
    [i \in 1..(Len(e.functions) - e.imported) |->
        e.signatures[e.functions[e.imported + i]]]

\* The indices register gives the signatures sigs, registered in order.
RECURSIVE RegisterIndices(_, _)
RegisterIndices(reg, sigs) ==
    IF sigs = <<>> THEN <<>>
    ELSE LET r == register(reg, Head(sigs)) IN
         <<r.idx>> \o RegisterIndices(r.reg, Tail(sigs))

\* CodeMemory::new: a region with nothing mapped.
CodeMemory_new == [w |-> FALSE, x |-> FALSE, copied |-> FALSE, patched |-> FALSE,
                   lateWrite |-> FALSE]

\* CodeMemory::allocate: the region is mapped read-write and the function
\* bodies and sections are copied in.
CodeMemory_allocate(cm) == [cm EXCEPT !.w = TRUE, !.copied = TRUE]

\* A write of link_module into a region: a relocation patch.
CodeMemory_patch(cm) ==
    [cm EXCEPT !.patched = TRUE, !.lateWrite = cm.lateWrite \/ cm.x \/ ~cm.w]

\* CodeMemory::publish: the region is flipped from read-write to
\* read-execute.
CodeMemory_publish(cm) == [cm EXCEPT !.w = FALSE, !.x = TRUE]

\* A publish that acts on the first region instead of the last one.
publish_compiled_code_first(cms) == [cms EXCEPT ![1] = CodeMemory_publish(cms[1])]

\* UniversalEngineInner::publish_compiled_code:
\* self.code_memory.last_mut().unwrap().publish()
publish_compiled_code(cms) ==
    [cms EXCEPT ![Len(cms)] = CodeMemory_publish(cms[Len(cms)])]

\* load_common with link_module moved behind publish_compiled_code.
load_common_next_linkLate(pc) ==
    CASE pc = "register" -> "allocate"
      [] pc = "allocate" -> "publish"
      [] pc = "publish"  -> "link"
      [] pc = "link"     -> "eh_frame"
      [] pc = "eh_frame" -> "return"

\* The order of load_common's steps: register the signatures, allocate,
\* link_module, publish_compiled_code, publish_eh_frame, return the artifact.
load_common_next(pc) ==
    CASE pc = "register" -> "allocate"
      [] pc = "allocate" -> "link"
      [] pc = "link"     -> "publish"
      [] pc = "publish"  -> "eh_frame"
      [] pc = "eh_frame" -> "return"

InitLoad ==
    InitLoadIdle /\ InitSigIdle /\ InitGuestIdle /\ InitSerIdle /\ InitCompileIdle
    /\ InitInstIdle
    /\ InitMachineIdle
    /\ InitEngineIdle
    /\ InitExportIdle
    /\ InitIndexIdle
    /\ InitCpuIdle /\ InitPsmIdle

\* The executable that thread t is loading.
Exe(t) == Executables[tjob[t].exe]

\* engine.load(executable): load_owned or load_archived begins.
LoadBegin(t, e, kind) ==
    /\ tpc[t] = "idle"
    /\ Len(code_memory) < MaxRegions
    /\ tpc' = [tpc EXCEPT ![t] = "imports"]
    /\ tjob' = [tjob EXCEPT ![t] = [exe |-> e, kind |-> kind]]
    /\ tregion' = [tregion EXCEPT ![t] = 0]
    /\ UNCHANGED <<signatures, code_memory, lock, artifacts, loadOthers>>

\* The imports block of load_owned / load_archived: under the lock, the
\* signature of every imported function is registered; the guard is dropped
\* at the end of the block.
LoadImports(t) ==
    /\ tpc[t] = "imports"
    /\ lock = 0
    /\ signatures' = RegisterAll(signatures, ImportSigs(Exe(t)))
    /\ tpc' = [tpc EXCEPT ![t] = "prepare"]
    /\ UNCHANGED <<code_memory, lock, tjob, tregion, artifacts, loadOthers>>

\* Between the imports block and load_common: load_archived deserializes
\* the passive data and returns an error when that fails; load_owned clones.
LoadPrepare(t) ==
    /\ tpc[t] = "prepare"
    /\ \E ok \in BOOLEAN :
        /\ ok \/ tjob[t].kind = "archived"
        /\ tpc' = [tpc EXCEPT ![t] = IF ok THEN "lock" ELSE "idle"]
    /\ UNCHANGED <<signatures, code_memory, lock, tjob, tregion, artifacts, loadOthers>>

\* load_common: let mut inner_engine = self.inner_mut()
LoadLock(t) ==
    /\ tpc[t] = "lock"
    /\ lock = 0
    /\ lock' = t
    /\ tpc' = [tpc EXCEPT ![t] = "register"]
    /\ UNCHANGED <<signatures, code_memory, tjob, tregion, artifacts, loadOthers>>

\* load_common: the module's signatures are registered.
LoadRegister(t) ==
    /\ tpc[t] = "register"
    /\ lock = t
    /\ signatures' = RegisterAll(signatures, Exe(t).signatures)
    /\ tpc' = [tpc EXCEPT ![t] = load_common_next("register")]
    /\ UNCHANGED <<code_memory, lock, tjob, tregion, artifacts, loadOthers>>

\* load_common: inner_engine.allocate(..)?  The local functions' signatures
\* are registered, a new CodeMemory is pushed and its allocate is called; on
\* failure load returns CompileError::Resource and the guard is dropped.
LoadAllocate(t) ==
    /\ tpc[t] = "allocate"
    /\ lock = t
    /\ signatures' = RegisterAll(signatures, LocalSigs(Exe(t)))
    /\ \E ok \in BOOLEAN :
        IF ok
        THEN /\ code_memory' = Append(code_memory, CodeMemory_allocate(CodeMemory_new))
             /\ tregion' = [tregion EXCEPT ![t] = Len(code_memory) + 1]
             /\ tpc' = [tpc EXCEPT ![t] = load_common_next("allocate")]
             /\ UNCHANGED lock
        ELSE /\ code_memory' = Append(code_memory, CodeMemory_new)
             /\ tpc' = [tpc EXCEPT ![t] = "idle"]
             /\ lock' = 0
             /\ UNCHANGED tregion
    /\ UNCHANGED <<tjob, artifacts, loadOthers>>

\* load_common: link_module patches the relocations into the function
\* bodies and sections that allocate returned.
LoadLink(t) ==
    /\ tpc[t] = "link"
    /\ lock = t
    /\ code_memory' = [code_memory EXCEPT ![tregion[t]] = CodeMemory_patch(@)]
    /\ tpc' = [tpc EXCEPT ![t] = load_common_next("link")]
    /\ UNCHANGED <<signatures, lock, tjob, tregion, artifacts, loadOthers>>

\* load_common: inner_engine.publish_compiled_code()
LoadPublish(t) ==
    /\ tpc[t] = "publish"
    /\ lock = t
    /\ code_memory' = publish_compiled_code(code_memory)
    /\ tpc' = [tpc EXCEPT ![t] = load_common_next("publish")]
    /\ UNCHANGED <<signatures, lock, tjob, tregion, artifacts, loadOthers>>

\* load_common: inner_engine.publish_eh_frame(eh_frame)?  On failure load
\* returns CompileError::Resource and the guard is dropped.
LoadEhFrame(t) ==
    /\ tpc[t] = "eh_frame"
    /\ lock = t
    /\ \E ok \in BOOLEAN :
        IF ok
        THEN /\ tpc' = [tpc EXCEPT ![t] = load_common_next("eh_frame")]
             /\ UNCHANGED lock
        ELSE /\ tpc' = [tpc EXCEPT ![t] = "idle"]
             /\ lock' = 0
    /\ UNCHANGED <<signatures, code_memory, tjob, tregion, artifacts, loadOthers>>

\* load_common: Ok(Arc::new(UniversalArtifact {..})): the artifact, with
\* its function pointers into the region allocate returned, goes to the
\* caller and the guard is dropped.
LoadReturn(t) ==
    /\ tpc[t] = "return"
    /\ lock = t
    /\ artifacts' = artifacts \cup
         {[thread |-> t, region |-> tregion[t], exe |-> tjob[t].exe,
           kind |-> tjob[t].kind,
           signatures |-> RegisterIndices(signatures, Exe(t).signatures)]}
    /\ lock' = 0
    /\ tpc' = [tpc EXCEPT ![t] = "idle"]
    /\ UNCHANGED <<signatures, code_memory, tjob, tregion, loadOthers>>

\* engine.register_signature(func_type): self.inner().signatures.register(..)
EngineRegister(t, sig) ==
    /\ tpc[t] = "idle"
    /\ lock = 0
    /\ signatures' = register(signatures, sig).reg
    /\ UNCHANGED <<code_memory, lock, tpc, tjob, tregion, artifacts, loadOthers>>

NextLoad ==
    \E t \in Threads :
        \/ \E e \in 1..Len(Executables) : \E kind \in {"owned", "archived"} :
                LoadBegin(t, e, kind)
        \/ LoadImports(t)
        \/ LoadPrepare(t)
        \/ LoadLock(t)
        \/ LoadRegister(t)
        \/ LoadAllocate(t)
        \/ LoadLink(t)
        \/ LoadPublish(t)
        \/ LoadEhFrame(t)
        \/ LoadReturn(t)
        \/ \E sig \in {FunctionType(<<>>, <<"I64">>)} : EngineRegister(t, sig)

SpecLoad == InitLoad /\ [][NextLoad]_vars

\* C5: in every load the code memory that holds the module's code is
\* published before the artifact is returned: every artifact a load has
\* returned points into the region that load allocated, and that region is
\* read-execute.
C5_PublishedBeforeReturned ==
    \A a \in artifacts :
        /\ a.region \in 1..Len(code_memory)
        /\ code_memory[a.region].copied
        /\ code_memory[a.region].x
        /\ ~code_memory[a.region].w

\* Two loads have returned artifacts, the second one while the other thread
\* was in a load of its own.
C5_Witness ==
    /\ \E a \in artifacts : \E b \in artifacts : a.region # b.region
    /\ \E a \in artifacts : a.kind = "archived"
    /\ \E t \in Threads : tpc[t] \in {"imports", "prepare", "lock"}

\* C6: no region is writable and executable at once, and every copy and
\* relocation patch went into a region that was read-write and not yet
\* published.
C6_WriteXorExecute ==
    \A i \in 1..Len(code_memory) :
        /\ ~(code_memory[i].w /\ code_memory[i].x)
        /\ ~code_memory[i].lateWrite
        /\ code_memory[i].x => (code_memory[i].copied /\ code_memory[i].patched)

\* A region has been copied into, patched and published.
C6_Witness ==
    \E i \in 1..Len(code_memory) :
        /\ code_memory[i].x
        /\ code_memory[i].patched
        /\ \E t \in Threads : tpc[t] = "eh_frame" /\ tregion[t] = i

\* The region count of the pool given to Universal::pool when the engine
\* was built; allocate pushes a CodeMemory without reading it.
PoolCap == 1

\* C27: after any loads the engine holds no more code-memory regions than
\* the configured cap.
C27_RegionsWithinCap == Len(code_memory) <= PoolCap

-----------------------------------------------------------------------------
(* SpecLock: threads calling compile, load, register_signature and         *)
(* lookup_signature on clones of one UniversalEngine.  The clones share    *)
(* the one Mutex of the engine; lock is the thread that holds its guard.   *)

\* A guard that is forgotten instead of dropped: the Mutex stays taken.
guard_drop_forgotten(l, t) == l

\* The MutexGuard that inner() or inner_mut() gave thread t goes out of
\* scope: the Mutex is free again.
guard_drop(l, t) == IF l = t THEN 0 ELSE l

\* How a compile call ends: compiler()? finds no compiler, translate
\* fails, compile_module fails, or the executable is returned.
CompileOutcomes == {"NoCompiler", "Wasm", "Codegen", "Ok"}

\* engine.compile(binary, tunables) is called in a build with the
\* "compiler" feature.
EngineCompileBegin(t) ==
    /\ tpc[t] = "idle"
    /\ tpc' = [tpc EXCEPT ![t] = "compile_lock"]
    /\ tjob' = [tjob EXCEPT ![t] = [exe |-> 0, kind |-> "compile"]]
    /\ UNCHANGED <<signatures, code_memory, lock, tregion, artifacts, loadOthers>>

\* compile: let inner_engine = self.inner_mut()
EngineCompileLock(t) ==
    /\ tpc[t] = "compile_lock"
    /\ lock = 0
    /\ lock' = t
    /\ tpc' = [tpc EXCEPT ![t] = "compiling"]
    /\ UNCHANGED <<signatures, code_memory, tjob, tregion, artifacts, loadOthers>>

\* compile: the rest of the function, run under the guard; every return,
\* by ? or with the executable, drops the guard.
EngineCompileReturn(t, outcome) ==
    /\ tpc[t] = "compiling"
    /\ lock = t
    /\ lock' = guard_drop(lock, t)
    /\ tpc' = [tpc EXCEPT ![t] = "idle"]
    /\ tjob' = [tjob EXCEPT ![t] = [exe |-> 0,
                                    kind |-> IF outcome = "Ok" THEN "compiled"
                                             ELSE "compile_error"]]
    /\ UNCHANGED <<signatures, code_memory, tregion, artifacts, loadOthers>>

\* engine.lookup_signature(sig): self.inner().signatures.lookup(sig).cloned()
EngineLookup(t, idx) ==
    /\ tpc[t] = "idle"
    /\ lock = 0
    /\ lastLookup' = lookup(signatures, idx)
    /\ UNCHANGED <<loadVars, issued>>
    /\ UNCHANGED <<registry, lastReg, guestVars, serVars, compileVars,
                   instVars, machineVars, engineVars, exportVars,
                   indexVars, cpuVars, psmVars>>

\* The steps thread t makes inside a call.
LockStep(t) ==
    \/ LoadImports(t)
    \/ LoadPrepare(t)
    \/ LoadLock(t)
    \/ LoadRegister(t)
    \/ LoadAllocate(t)
    \/ LoadLink(t)
    \/ LoadPublish(t)
    \/ LoadEhFrame(t)
    \/ LoadReturn(t)
    \/ EngineCompileLock(t)
    \/ \E outcome \in CompileOutcomes : EngineCompileReturn(t, outcome)

NextLock ==
    \E t \in Threads :
        \/ \E kind \in {"owned", "archived"} : LoadBegin(t, 1, kind)
        \/ EngineCompileBegin(t)
        \/ LoadImports(t)
        \/ LoadPrepare(t)
        \/ LoadLock(t)
        \/ LoadRegister(t)
        \/ LoadAllocate(t)
        \/ LoadLink(t)
        \/ LoadPublish(t)
        \/ LoadEhFrame(t)
        \/ LoadReturn(t)
        \/ EngineCompileLock(t)
        \/ \E outcome \in CompileOutcomes : EngineCompileReturn(t, outcome)
        \/ \E sig \in {FunctionType(<<>>, <<"I64">>)} : EngineRegister(t, sig)
        \/ EngineLookup(t, 0)

SpecLock == InitLoad /\ [][NextLock]_vars

\* The places of a call at which its thread holds the guard.
HoldingPcs == {"register", "allocate", "link", "publish", "eh_frame", "return", "compiling"}

\* C40: in every interleaving of compile, load, register_signature and
\* lookup_signature calls of the threads, a thread holds the lock only
\* between taking it and the end of the block or call that took it: never
\* where it is about to take the lock, never after its call returned, on
\* an error path or not; and every call that has begun can go on, at once
\* or after the steps of the thread that holds the lock.
C40_LockDiscipline ==
    /\ lock \in {0} \cup Threads
    /\ \A t \in Threads :
          /\ lock = t <=> tpc[t] \in HoldingPcs
          /\ tpc[t] # "idle" =>
                \/ ENABLED LockStep(t)
                \/ \E u \in Threads \ {t} : lock = u /\ ENABLED LockStep(u)

\* A compile has returned an error while the other thread waits for the
\* lock in a load that registered its imports.
C40_Witness ==
    /\ tjob[1].kind = "compile_error"
    /\ tpc[1] = "idle"
    /\ tpc[2] = "lock"
    /\ lock = 0
    /\ artifacts # {}

-----------------------------------------------------------------------------
(* SpecConc: threads calling register_signature, lookup_signature and the  *)
(* registering blocks of load on one UniversalEngine.                      *)
(*                                                                         *)
(* A call takes the engine's Mutex with inner() or inner_mut(), registers  *)
(* its signatures one after the other and drops the guard.  One register   *)
(* is two steps of its thread: the look at the map and at the length of    *)
(* index2signature, and, for a new type, the insertion.  issued holds      *)
(* <<type, index, thread>> for every index a register call returned.       *)

\* A lock that lets every caller in at once.
inner_mut_noWait(l) == TRUE

\* self.inner.lock(): the caller gets the guard when the Mutex is free.
inner_mut(l) == l = 0

\* The signature lists registered under one guard: the one signature of
\* register_signature or of an imports block, the signatures of a module.
ConcJobs ==
    {<<Executables[e].signatures[i]>> :
        e \in 1..Len(Executables), i \in 1..2}
    \cup {Executables[e].signatures : e \in 1..Len(Executables)}

\* What a thread goes on with when sigs are left to register.
ConcNext(sigs) == IF sigs = <<>> THEN "unlock" ELSE "find"

\* let mut inner_engine = self.inner_mut(), with sigs to register.
ConcAcquire(t, sigs) ==
    /\ tpc[t] = "idle"
    /\ inner_mut(lock)
    /\ lock' = t
    /\ tpc' = [tpc EXCEPT ![t] = "find"]
    /\ tjob' = [tjob EXCEPT ![t] = [exe |-> 0, kind |-> "register", sigs |-> sigs,
                                    len |-> 0]]
    /\ UNCHANGED <<signatures, code_memory, tregion, artifacts, issued>>
    /\ UNCHANGED <<registry, lastReg, lastLookup, guestVars, serVars, compileVars,
                   instVars, machineVars, engineVars, exportVars,
                   indexVars, cpuVars, psmVars>>

\* register: len is read and the entry of the type is looked at; a known
\* type's index is returned.
ConcFind(t) ==
    /\ tpc[t] = "find"
    /\ LET sig == Head(tjob[t].sigs)
           r == register(signatures, sig)
       IN  IF r.fresh
           THEN /\ tjob' = [tjob EXCEPT ![t].len = r.idx]
                /\ tpc' = [tpc EXCEPT ![t] = "insert"]
                /\ UNCHANGED issued
           ELSE /\ tjob' = [tjob EXCEPT ![t].sigs = Tail(@)]
                /\ tpc' = [tpc EXCEPT ![t] = ConcNext(Tail(tjob[t].sigs))]
                /\ issued' = issued \cup {<<sig, r.idx, t>>}
    /\ UNCHANGED <<signatures, code_memory, lock, tregion, artifacts>>
    /\ UNCHANGED <<registry, lastReg, lastLookup, guestVars, serVars, compileVars,
                   instVars, machineVars, engineVars, exportVars,
                   indexVars, cpuVars, psmVars>>

\* register, vacant entry: the index made of len is inserted and the type
\* is pushed.
ConcInsert(t) ==
    /\ tpc[t] = "insert"
    /\ LET sig == Head(tjob[t].sigs)
           sig_id == tjob[t].len
       IN  /\ signatures' =
                [signature2index |-> (sig :> sig_id) @@ signatures.signature2index,
                 index2signature |-> Append(signatures.index2signature, sig)]
           /\ issued' = issued \cup {<<sig, sig_id, t>>}
           /\ tjob' = [tjob EXCEPT ![t].sigs = Tail(@)]
           /\ tpc' = [tpc EXCEPT ![t] = ConcNext(Tail(tjob[t].sigs))]
    /\ UNCHANGED <<code_memory, lock, tregion, artifacts>>
    /\ UNCHANGED <<registry, lastReg, lastLookup, guestVars, serVars, compileVars,
                   instVars, machineVars, engineVars, exportVars,
                   indexVars, cpuVars, psmVars>>

\* The guard is dropped.
ConcRelease(t) ==
    /\ tpc[t] = "unlock"
    /\ lock' = 0
    /\ tpc' = [tpc EXCEPT ![t] = "idle"]
    /\ tjob' = [tjob EXCEPT ![t] = NoJob]
    /\ UNCHANGED <<signatures, code_memory, tregion, artifacts, issued>>
    /\ UNCHANGED <<registry, lastReg, lastLookup, guestVars, serVars, compileVars,
                   instVars, machineVars, engineVars, exportVars,
                   indexVars, cpuVars, psmVars>>

\* engine.lookup_signature(sig): self.inner().signatures.lookup(sig).cloned()
ConcLookup(t, idx) ==
    /\ tpc[t] = "idle"
    /\ inner_mut(lock)
    /\ lastLookup' = lookup(signatures, idx)
    /\ UNCHANGED <<loadVars, issued>>
    /\ UNCHANGED <<registry, lastReg, guestVars, serVars, compileVars,
                   instVars, machineVars, engineVars, exportVars,
                   indexVars, cpuVars, psmVars>>

NextConc ==
    \E t \in Threads :
        \/ \E sigs \in ConcJobs : ConcAcquire(t, sigs)
        \/ ConcFind(t)
        \/ ConcInsert(t)
        \/ ConcRelease(t)
        \/ \E idx \in 0..3 : ConcLookup(t, idx)

SpecConc == InitLoad /\ [][NextConc]_vars

\* C24: under concurrent register_signature, lookup_signature and load
\* calls every access to the registry is made by one thread at a time, the
\* one holding the engine lock; equal types get the same index in every
\* thread, distinct types get distinct indices, no index is issued twice,
\* and a lookup gives a type that was registered.
C24_AtomicRegistry ==
    /\ \A t \in Threads : tpc[t] # "idle" => lock = t
    /\ \A a \in issued : \A b \in issued : (a[2] = b[2]) <=> (a[1] = b[1])
    /\ \A a \in issued : lookup(signatures, a[2]) = Some(a[1])
    /\ Cardinality(DOMAIN signatures.signature2index) = Len(signatures.index2signature)
    /\ lastLookup # NoSig => \E a \in issued : lastLookup = Some(a[1])

\* Both threads have been given the index of one type, a second type is
\* registered too, and a thread is in the middle of registering a third.
C24_Witness ==
    /\ \E a \in issued : \E b \in issued :
          a[1] = b[1] /\ a[3] # b[3] /\ \E c \in issued : c[1] # a[1]
    /\ \E t \in Threads : tpc[t] = "insert"

-----------------------------------------------------------------------------
(* SpecSer: serialized executables.                                        *)
(*                                                                         *)
(* Buffers are sequences of bytes.  A buffer is either the output of       *)
(* UniversalExecutable::serialize or bytes a caller provides.              *)

\* Bound: the number of function-body bytes of a serialized executable.
MaxBody == 2

\* b"\0wasmer-universal\xFF\xFF\xFF\xFF\xFF"
MAGIC_HEADER ==
    <<0, 119, 97, 115, 109, 101, 114, 45, 117, 110, 105, 118, 101, 114, 115, 97, 108,
      255, 255, 255, 255, 255>>

\* UniversalArtifact::MAGIC_HEADER: b"\0wasmer-universal\0\0\0\0\0"
ARTIFACT_MAGIC_HEADER == SubSeq(MAGIC_HEADER, 1, 17) \o <<0, 0, 0, 0, 0>>

SERIALIZED_METADATA_LENGTH_OFFSET == 22
SERIALIZED_METADATA_CONTENT_OFFSET == 32

\* The size of the archived root object.  The archived UniversalExecutable
\* holds eight archived vectors of eight bytes each and more, so it is
\* longer than the header.
RootSize == 24

Max(a, b) == IF a >= b THEN a ELSE b

\* slice::starts_with
starts_with(data, prefix) ==
    Len(data) >= Len(prefix) /\ SubSeq(data, 1, Len(prefix)) = prefix

\* u64::to_le_bytes, for values below 2^24.
to_le_bytes(n) ==
    [i \in 1..8 |-> IF i <= 3 THEN (n \div (256 ^ (i - 1))) % 256 ELSE 0]

\* u64::from_le_bytes.  The value is kept as its low 24 bits and a flag
\* that says whether a higher bit is set; every length it is compared with
\* is below 2^24.
from_le_bytes(b) ==
    [high |-> \E i \in 4..8 : b[i] # 0,
     low |-> b[1] + 256 * b[2] + 65536 * b[3]]

\* v < n for a decoded u64 v and a length n.
u64_lt(v, n) == ~v.high /\ v.low < n

\* Write for Cursor<&mut Vec<u8>>: the bytes go to the cursor's position,
\* over what the vector holds there, and extend the vector past its end.
cursor_write(vec, pos, bytes) ==
    [i \in 1..Max(Len(vec), pos + Len(bytes)) |->
        IF i > pos /\ i <= pos + Len(bytes) THEN bytes[i - pos] ELSE vec[i]]

\* The archived root object of an executable.
Root(e) ==
    <<Len(e.body), Len(e.names), e.cpu_features>> \o [i \in 1..(RootSize - 3) |-> 0]

\* rkyv's serialize_value through a WriteSerializer whose position starts at
\* start: the objects the root refers to are written first, the root last;
\* the result is the bytes written and the position of the root.
serialize_value(e, start) ==
    [bytes |-> e.body \o e.names \o Root(e),
     pos |-> start + Len(e.body) + Len(e.names)]

\* UniversalExecutable::serialize: the header is pushed, the serializer
\* is WriteSerializer::with_pos(Cursor::new(&mut out), MAGIC_HEADER.len()),
\* whose cursor starts at 0, and the root position is appended.
serialize(e) ==
    LET r == serialize_value(e, Len(MAGIC_HEADER))
        out == cursor_write(MAGIC_HEADER, 0, r.bytes)
    IN out \o to_le_bytes(r.pos)

\* The last 8 bytes of a buffer, decoded.
position_value(data) == from_le_bytes(SubSeq(data, Len(data) - 7, Len(data)))

\* UniversalExecutableRef::verify_serialized
verify_serialized(data) ==
    IF ~starts_with(data, MAGIC_HEADER)
    THEN "the provided bytes are not wasmer-universal"
    ELSE IF Len(data) < Len(MAGIC_HEADER) + 8
    THEN "the data buffer is too small to be valid"
    ELSE IF u64_lt(position_value(data), Len(data))
    THEN "the buffer is malformed"
    ELSE "Ok"

\* Does the root object at pos lie inside archive, with what it refers to?
InArchive(archive, pos) ==
    /\ ~pos.high
    /\ pos.low + RootSize <= Len(archive)
    /\ pos.low - archive[pos.low + 1] - archive[pos.low + 2] >= 0

\* The executable an in-bounds root at position p of archive describes.
ArchivedExecutable(archive, p) ==
    LET blen == archive[p + 1]
        nlen == archive[p + 2]
    IN Executable(SubSeq(archive, p - nlen - blen + 1, p - nlen),
                  SubSeq(archive, p - nlen + 1, p),
                  archive[p + 3])

\* UniversalExecutableRef::deserialize: verify_serialized, then
\* rkyv::archived_value(archive, position), which checks nothing.  The
\* result is an error, a view of an executable, or a reference outside the
\* buffer ("dangling").
deserialize(data) ==
    IF verify_serialized(data) # "Ok"
    THEN [tag |-> "Err", exe |-> NoExecutable]
    ELSE LET archive == SubSeq(data, 1, Len(data) - 8)
             pos == position_value(data)
         IN IF InArchive(archive, pos)
            THEN [tag |-> "Ok", exe |-> Some(ArchivedExecutable(archive, pos.low))]
            ELSE [tag |-> "dangling", exe |-> NoExecutable]

\* leb128::read::unsigned: seven bits a byte, low group first, until a
\* byte without the continuation bit; an error at the end of the input.
RECURSIVE leb128_read(_, _, _)
leb128_read(bytes, i, acc) ==
    IF i > Len(bytes) THEN [ok |-> FALSE, high |-> FALSE, low |-> 0]
    ELSE LET group == bytes[i] % 128
             next == [high |-> acc.high \/ (i > 3 /\ group # 0),
                      low |-> IF i <= 3 THEN acc.low + group * (128 ^ (i - 1)) ELSE acc.low]
         IN IF bytes[i] < 128
            THEN [ok |-> TRUE, high |-> next.high, low |-> next.low]
            ELSE leb128_read(bytes, i + 1, next)

\* UniversalArtifact::deserialize up to the metadata slice it hands to
\* SerializableModule::deserialize.
UniversalArtifact_deserialize(bytes) ==
    IF ~starts_with(bytes, ARTIFACT_MAGIC_HEADER)
    THEN "Err"
    ELSE LET inner_bytes == SubSeq(bytes, SERIALIZED_METADATA_LENGTH_OFFSET + 1, Len(bytes))
             metadata_len == leb128_read(inner_bytes, 1, [high |-> FALSE, low |-> 0])
         IN IF ~metadata_len.ok THEN "Err"
            ELSE IF Len(bytes) <= SERIALIZED_METADATA_CONTENT_OFFSET THEN "panic"
            ELSE IF metadata_len.high
                    \/ SERIALIZED_METADATA_CONTENT_OFFSET + metadata_len.low > Len(bytes)
                 THEN "out of bounds"
            ELSE "slice"

\* The executables that are serialized.
SerExecutables ==
    {Executable(b, n, c) : b \in SeqsUpTo({1, 2}, MaxBody), n \in {<<>>, <<97>>}, c \in {0, 1}}

\* Buffers a caller may provide: a header or none, a payload or none, a
\* trailing position or none.
ProvidedBuffers ==
    LET payload == serialize_value(Executable(<<1>>, <<97>>, 1), Len(MAGIC_HEADER))
        Headers == {<<>>, SubSeq(MAGIC_HEADER, 1, 10), MAGIC_HEADER, ARTIFACT_MAGIC_HEADER}
        Payloads == {<<>>, <<3>>, <<128>>, payload.bytes}
        Whole(h, p) == Len(h) + Len(p) + 8
        Tails(h, p) == {<<>>, <<0, 0, 0, 0, 0, 0, 0, 1>>}
                       \cup {to_le_bytes(n) : n \in {0, payload.pos, Whole(h, p) - 1,
                                                     Whole(h, p), Whole(h, p) + 1}}
    IN {h \o p \o t : <<h, p, t>> \in
            {<<h, p, t>> \in Headers \X Payloads \X UNION {Tails(h, p) : h \in Headers, p \in Payloads} :
                t \in Tails(h, p)}}

InitSer ==
    InitSerIdle /\ InitSigIdle /\ InitGuestIdle /\ InitLoadIdle /\ InitCompileIdle
    /\ InitInstIdle
    /\ InitMachineIdle
    /\ InitEngineIdle
    /\ InitExportIdle
    /\ InitIndexIdle
    /\ InitCpuIdle /\ InitPsmIdle

\* executable.serialize()
Serialize(e) ==
    /\ buf' = serialize(e)
    /\ origin' = Some(e)
    /\ vres' = "none"
    /\ dres' = NoResult
    /\ ares' = "none"
    /\ UNCHANGED serOthers

\* A caller comes with bytes of its own.
Provide(data) ==
    /\ buf' = data
    /\ origin' = NoExecutable
    /\ vres' = "none"
    /\ dres' = NoResult
    /\ ares' = "none"
    /\ UNCHANGED serOthers

\* UniversalExecutableRef::verify_serialized(buf)
VerifySerialized ==
    /\ vres' = verify_serialized(buf)
    /\ UNCHANGED <<buf, origin, dres, ares, serOthers>>

\* UniversalExecutableRef::deserialize(buf).  A reference outside the
\* buffer is undefined behaviour: the call crashes or returns a view of
\* whatever lies there.
Deserialize ==
    /\ LET r == deserialize(buf) IN
        IF r.tag = "dangling"
        THEN \E out \in {"crash", "garbage"} : dres' = [tag |-> out, exe |-> NoExecutable]
        ELSE dres' = r
    /\ UNCHANGED <<buf, origin, vres, ares, serOthers>>

\* UniversalArtifact::deserialize(buf)
ArtifactDeserialize ==
    /\ ares' = UniversalArtifact_deserialize(buf)
    /\ UNCHANGED <<buf, origin, vres, dres, serOthers>>

NextSer ==
    \/ \E e \in SerExecutables : Serialize(e)
    \/ \E data \in ProvidedBuffers : Provide(data)
    \/ VerifySerialized
    \/ Deserialize
    \/ ArtifactDeserialize

SpecSer == InitSer /\ [][NextSer]_vars

\* C7: the bytes serialize returns are accepted by verify_serialized and
\* by deserialize, and the deserialized view is the executable that was
\* serialized, so that loading it gives what loading the executable gives.
C7_RoundTrip ==
    origin.some =>
        /\ vres # "none" => vres = "Ok"
        /\ dres.tag # "none" => (dres.tag = "Ok" /\ dres.exe = origin)

\* C8: the buffer serialize returns is the 22-byte magic header, then the
\* archival payload, then the root position as 8 little-endian bytes.
C8_Format ==
    origin.some =>
        LET r == serialize_value(origin.val, Len(MAGIC_HEADER)) IN
        /\ starts_with(buf, MAGIC_HEADER)
        /\ buf = MAGIC_HEADER \o r.bytes \o to_le_bytes(r.pos)

\* A buffer without the magic header, shorter than the header and the
\* position, or with a root position that is not inside it.
Unacceptable(data) ==
    \/ ~starts_with(data, MAGIC_HEADER)
    \/ Len(data) < Len(MAGIC_HEADER) + 8
    \/ ~u64_lt(position_value(data), Len(data))

\* C9: for every such buffer verify_serialized and deserialize return an
\* error: never Ok, never a crash, never a read outside the buffer.
C9_Rejected ==
    Unacceptable(buf) =>
        /\ vres # "none" => vres \notin {"Ok"}
        /\ dres.tag # "none" => dres.tag = "Err"

-----------------------------------------------------------------------------
(* SpecCompile: engine.compile followed by serialize, several times over.  *)
(*                                                                         *)
(* Each compilation takes a fresh ModuleId, iterates its function_names    *)
(* hash map in an order of the map's choosing, and has its functions       *)
(* compiled by parallel workers that finish in any order.                  *)

\* Bound: the number of compilations.
MaxCompiles == 2

\* The modules that are compiled: the local functions' code and the
\* function names.
Wasms ==
    <<[functions |-> <<10, 20>>, function_names |-> {<<0, 97>>, <<1, 98>>}],
      [functions |-> <<30>>, function_names |-> {<<0, 99>>}],
      [functions |-> <<>>, function_names |-> {}]>>

\* The orders in which the elements of S can be iterated.
Orders(S) == {o \in [1..Cardinality(S) -> S] : \A x \in S : \E i \in DOMAIN o : o[i] = x}

RECURSIVE Flatten(_)
Flatten(ss) == IF ss = <<>> THEN <<>> ELSE Head(ss) \o Flatten(Tail(ss))

\* FuncGen: the code of one function, a function of its input alone.
compile_function(code) == <<code, code + 1>>

\* collect of the parallel iterator: every result goes to the slot of its
\* input, whatever the order the workers finished in.
collect(results) == [i \in 1..Cardinality(DOMAIN results) |-> results[i]]

\* A conversion that keeps the hash map's iteration order.
ArchivableModuleInfo_from_hashOrder(info) ==
    [function_names |-> info.function_names]

\* From<ModuleInfo> for ArchivableModuleInfo: the id is not a field of the
\* archivable form, and function_names is collected into a BTreeMap, whose
\* order is that of the keys.
ArchivableModuleInfo_from(info) ==
    [function_names |->
        CHOOSE o \in Orders({info.function_names[i] : i \in DOMAIN info.function_names}) :
            \A i \in DOMAIN o : \A j \in DOMAIN o : i < j => o[i][1] < o[j][1]]

\* The executable engine.compile returns for a finished job, as its
\* serializer sees it.
UniversalExecutable(job) ==
    LET info == ArchivableModuleInfo_from([id |-> job.id, function_names |-> job.names])
    IN Executable(Flatten(collect(job.results)),
                  Flatten(info.function_names),
                  1)

InitCompile ==
    InitCompileIdle /\ InitSigIdle /\ InitGuestIdle /\ InitLoadIdle /\ InitSerIdle
    /\ InitInstIdle
    /\ InitMachineIdle
    /\ InitEngineIdle
    /\ InitExportIdle
    /\ InitIndexIdle
    /\ InitCpuIdle /\ InitPsmIdle

\* engine.compile(binary): the module is translated, which takes the next
\* ModuleId and fills the function_names hash map.
Compile(w) ==
    /\ ~cjob.busy
    /\ NEXT_ID < MaxCompiles
    /\ \E o \in Orders(Wasms[w].function_names) :
        cjob' = [busy |-> TRUE, w |-> w, id |-> NEXT_ID, names |-> o,
                 finished |-> <<>>, results |-> <<>>]
    /\ NEXT_ID' = NEXT_ID + 1
    /\ UNCHANGED <<runs, compileOthers>>

\* A worker of compile_module finishes function i.
WorkerFinish(i) ==
    /\ cjob.busy
    /\ i \in 1..Len(Wasms[cjob.w].functions)
    /\ \A k \in DOMAIN cjob.finished : cjob.finished[k] # i
    /\ cjob' = [cjob EXCEPT
                  !.finished = Append(@, i),
                  !.results = (i :> compile_function(Wasms[cjob.w].functions[i])) @@ @]
    /\ UNCHANGED <<NEXT_ID, runs, compileOthers>>

\* compile returns the executable and the caller serializes it.
CompileReturn ==
    /\ cjob.busy
    /\ Len(cjob.finished) = Len(Wasms[cjob.w].functions)
    /\ runs' = runs \cup {[w |-> cjob.w, id |-> cjob.id, names |-> cjob.names,
                            finished |-> cjob.finished,
                            bytes |-> serialize(UniversalExecutable(cjob))]}
    /\ cjob' = NoCompile
    /\ UNCHANGED <<NEXT_ID, compileOthers>>

NextCompile ==
    \/ \E w \in DOMAIN Wasms : Compile(w)
    \/ \E i \in 1..2 : WorkerFinish(i)
    \/ CompileReturn

SpecCompile == InitCompile /\ [][NextCompile]_vars

-----------------------------------------------------------------------------
(* SpecModule: SinglepassCompiler::compile_module.                         *)
(*                                                                         *)
(* The four maps of a Compilation are made one after the other: the import *)
(* call trampolines, the function bodies, the call trampolines of the      *)
(* signatures and the dynamic trampolines of the imported functions.  Each *)
(* is a parallel map over a vector of inputs whose workers finish in any   *)
(* order, collected into a Vec and then into a PrimaryMap.                 *)

\* The modules compiled: the signatures, the signature index of every
\* function (the imported ones first), the number of imported functions
\* and the bodies of the local ones.  A body of 0 does not compile.
ModuleInfos ==
    <<[signatures |-> <<"s0", "s1">>, functions |-> <<1, 0, 1, 0>>,
       import_count |-> 2, bodies |-> <<10, 20>>, multi_value |-> FALSE],
      [signatures |-> <<"s0", "s1", "s2">>, functions |-> <<2, 0>>,
       import_count |-> 1, bodies |-> <<30>>, multi_value |-> FALSE],
      [signatures |-> <<"s0">>, functions |-> <<0, 0>>,
       import_count |-> 0, bodies |-> <<40, 0>>, multi_value |-> FALSE],
      [signatures |-> <<"s0">>, functions |-> <<0>>,
       import_count |-> 0, bodies |-> <<50>>, multi_value |-> TRUE]>>

\* module.imported_function_types(): the signatures of the first
\* import_counts.functions functions.
imported_function_types(m) ==
    [k \in 1..m.import_count |-> m.signatures[m.functions[k] + 1]]

gen_import_call_trampoline(i, sig) == <<"import", i, sig>>
gen_std_trampoline(sig) == <<"call", sig>>
gen_std_dynamic_import_trampoline(sig) == <<"dynamic", sig>>

Phases == <<"import", "functions", "call", "dynamic">>

\* The vector a phase's parallel iterator runs over.
PhaseInputs(m, phase) ==
    CASE phase = "import" ->
           [k \in 1..m.import_count |-> <<k - 1, imported_function_types(m)[k]>>]
      [] phase = "functions" -> m.bodies
      [] phase = "call" -> m.signatures
      [] phase = "dynamic" -> imported_function_types(m)

\* The closure a phase maps over its inputs.
PhaseMap(phase, x) ==
    CASE phase = "import" -> gen_import_call_trampoline(x[1], x[2])
      [] phase = "functions" -> IF x = 0 THEN "CompileError" ELSE compile_function(x)
      [] phase = "call" -> gen_std_trampoline(x)
      [] phase = "dynamic" -> gen_std_dynamic_import_trampoline(x)

NoMaps == [p \in {} |-> <<>>]

\* compiler.compile_module(target, compile_info, .., function_body_inputs)
\* is called; multi-value modules are refused at once.
CompileModule(w) ==
    /\ ~cjob.busy
    /\ IF ModuleInfos[w].multi_value
       THEN /\ runs' = {[w |-> w, ok |-> FALSE, out |-> NoMaps, order |-> NoMaps]}
            /\ UNCHANGED cjob
       ELSE /\ cjob' = [busy |-> TRUE, w |-> w, phase |-> 1, finished |-> <<>>,
                        results |-> <<>>, out |-> NoMaps, order |-> NoMaps]
            /\ UNCHANGED runs
    /\ UNCHANGED <<NEXT_ID, compileOthers>>

\* A worker that keeps its result at the end of what is finished so far.
TaskFinish_push(i) ==
    /\ cjob.busy
    /\ i \in DOMAIN PhaseInputs(ModuleInfos[cjob.w], Phases[cjob.phase])
    /\ \A k \in DOMAIN cjob.finished : cjob.finished[k] # i
    /\ cjob' = [cjob EXCEPT
                  !.finished = Append(@, i),
                  !.results = ((Len(cjob.finished) + 1) :>
                      PhaseMap(Phases[cjob.phase],
                               PhaseInputs(ModuleInfos[cjob.w], Phases[cjob.phase])[i]))
                      @@ @]
    /\ UNCHANGED <<NEXT_ID, runs, compileOthers>>

\* A worker of the current phase finishes input i: the indexed parallel
\* iterator keeps the result at the place of its input.
TaskFinish(i) ==
    /\ cjob.busy
    /\ i \in DOMAIN PhaseInputs(ModuleInfos[cjob.w], Phases[cjob.phase])
    /\ \A k \in DOMAIN cjob.finished : cjob.finished[k] # i
    /\ cjob' = [cjob EXCEPT
                  !.finished = Append(@, i),
                  !.results = (i :>
                      PhaseMap(Phases[cjob.phase],
                               PhaseInputs(ModuleInfos[cjob.w], Phases[cjob.phase])[i]))
                      @@ @]
    /\ UNCHANGED <<NEXT_ID, runs, compileOthers>>

\* The Compilation or the error compile_module returns once a phase is
\* collected.
PhaseResult(job, vec) ==
    [w |-> job.w,
     ok |-> \A i \in DOMAIN vec : vec[i] # "CompileError",
     out |-> IF \A i \in DOMAIN vec : vec[i] # "CompileError"
             THEN (Phases[job.phase] :> vec) @@ job.out ELSE NoMaps,
     order |-> (Phases[job.phase] :> job.finished) @@ job.order]

\* .collect::<Vec<_>>().into_iter().collect::<PrimaryMap<_, _>>() of the
\* current phase, with ? on the function bodies; after the last phase
\* Ok(Compilation::new(..)) is returned.
PhaseCollect ==
    /\ cjob.busy
    /\ Len(cjob.finished) = Len(PhaseInputs(ModuleInfos[cjob.w], Phases[cjob.phase]))
    /\ LET r == PhaseResult(cjob, collect(cjob.results))
       IN  IF r.ok /\ cjob.phase < Len(Phases)
           THEN /\ cjob' = [cjob EXCEPT !.phase = @ + 1, !.finished = <<>>,
                                        !.results = <<>>, !.out = r.out,
                                        !.order = r.order]
                /\ UNCHANGED runs
           ELSE /\ runs' = {r}
                /\ cjob' = NoCompile
    /\ UNCHANGED <<NEXT_ID, compileOthers>>

NextModule ==
    \/ \E w \in DOMAIN ModuleInfos : CompileModule(w)
    \/ \E i \in 1..3 : TaskFinish(i)
    \/ PhaseCollect

SpecModule == InitCompile /\ [][NextModule]_vars

\* C25: whatever order the parallel workers finished in, a returned
\* Compilation has at LocalFunctionIndex i the code of the i-th body, at
\* SignatureIndex s the call trampoline of the s-th signature and at
\* FunctionIndex k the dynamic trampoline of the k-th imported function,
\* with one entry for each input.
C25_SlotsFollowInputs ==
    \A r \in runs : r.ok =>
        LET m == ModuleInfos[r.w]
        IN  /\ DOMAIN r.out["functions"] = DOMAIN m.bodies
            /\ \A i \in DOMAIN m.bodies :
                  r.out["functions"][i] = compile_function(m.bodies[i])
            /\ DOMAIN r.out["call"] = DOMAIN m.signatures
            /\ \A sg \in DOMAIN m.signatures :
                  r.out["call"][sg] = gen_std_trampoline(m.signatures[sg])
            /\ DOMAIN r.out["dynamic"] = 1..m.import_count
            /\ \A k \in 1..m.import_count :
                  r.out["dynamic"][k] =
                    gen_std_dynamic_import_trampoline(m.signatures[m.functions[k] + 1])

\* A Compilation was returned whose bodies, call trampolines and dynamic
\* trampolines were each finished last input first, over inputs that
\* differ.
C25_Witness ==
    \E r \in runs :
        /\ r.ok
        /\ r.order["functions"] = <<2, 1>>
        /\ r.order["call"] = <<2, 1>>
        /\ r.order["dynamic"] = <<2, 1>>
        /\ r.out["dynamic"][1] # r.out["dynamic"][2]

-----------------------------------------------------------------------------
(* SpecHeadless: engine.compile and engine.load on an engine made by       *)
(* UniversalEngine::new or UniversalEngine::headless, in a build with or   *)
(* without the "compiler" feature.                                         *)

\* The engines Universal::engine() makes: UniversalEngine::new gives
\* compiler: Some(compiler); headless() gives compiler: None, and is all a
\* build without the "compiler" feature has.
EngineBuilds ==
    {[feature |-> TRUE, compiler |-> {"singlepass"}],
     [feature |-> TRUE, compiler |-> {}],
     [feature |-> FALSE, compiler |-> {}]}

\* A compiler() that falls back on a compiler of its own.
compiler_fallback(eng) ==
    [err |-> "none",
     c |-> IF eng.compiler = {} THEN {"singlepass"} ELSE eng.compiler]

\* UniversalEngineInner::compiler
compiler(eng) ==
    IF eng.compiler = {}
    THEN [err |-> "Codegen", c |-> {}]
    ELSE [err |-> "none", c |-> eng.compiler]

\* The module binaries given to compile: indices into Wasms, and 0 for
\* bytes that are no module.
Binaries == 0..Len(Wasms)

\* UniversalEngine::compile(binary, tunables)
compile(eng, binary) ==
    IF ~eng.feature
    THEN [called |-> TRUE, err |-> "Codegen", exe |-> {}]
    ELSE IF compiler(eng).err # "none"
    THEN [called |-> TRUE, err |-> compiler(eng).err, exe |-> {}]
    ELSE IF binary = 0
    THEN [called |-> TRUE, err |-> "Wasm", exe |-> {}]
    ELSE [called |-> TRUE, err |-> "none",
          exe |-> {[i \in DOMAIN Wasms[binary].functions |->
                      compile_function(Wasms[binary].functions[i])]}]

InitHeadless ==
    /\ engine \in EngineBuilds
    /\ compiled = NoCompiled
    /\ InitExportIdle
    /\ InitIndexIdle
    /\ InitCpuIdle /\ InitPsmIdle
    /\ InitLoadIdle /\ InitSigIdle /\ InitGuestIdle /\ InitSerIdle /\ InitCompileIdle
    /\ InitInstIdle
    /\ InitMachineIdle

\* engine.compile(binary, tunables), the engine lock taken for the call.
EngineCompile(t, binary) ==
    /\ tpc[t] = "idle"
    /\ inner_mut(lock)
    /\ compiled' = compile(engine, binary)
    /\ UNCHANGED <<engine, engineOthers>>

\* One thread loads executables and compiles binaries.
NextHeadless ==
    \/ \E e \in 1..Len(Executables) : \E kind \in {"owned", "archived"} :
            LoadBegin(1, e, kind)
    \/ LoadImports(1)
    \/ LoadPrepare(1)
    \/ LoadLock(1)
    \/ LoadRegister(1)
    \/ LoadAllocate(1)
    \/ LoadLink(1)
    \/ LoadPublish(1)
    \/ LoadEhFrame(1)
    \/ LoadReturn(1)
    \/ \E binary \in Binaries : EngineCompile(1, binary)

SpecHeadless == InitHeadless /\ [][NextHeadless]_vars

\* C26: on an engine without a compiler every compile call returns a
\* CompileError and no Executable, and a load can be begun whenever the
\* engine is idle, as on an engine with a compiler.
C26_HeadlessLoadsOnly ==
    engine.compiler = {} =>
        /\ compiled.called => (compiled.err = "Codegen" /\ compiled.exe = {})
        /\ \A e \in 1..Len(Executables) :
              (tpc[1] = "idle" /\ Len(code_memory) < MaxRegions)
                  => ENABLED LoadBegin(1, e, "owned")

\* A headless engine in a build with the "compiler" feature has returned
\* an artifact from a load, and then refused to compile a valid module.
C26_Witness ==
    /\ engine = [feature |-> TRUE, compiler |-> {}]
    /\ artifacts # {}
    /\ compiled.called /\ compiled.err = "Codegen"

-----------------------------------------------------------------------------
(* SpecInst: Instance::new_with_config on a module, a resolver and an      *)
(* InstanceConfig.                                                         *)
(*                                                                         *)
(* An Option is the empty set or a set of one value.  The counters have    *)
(* CounterBits bits, and i32::MAX is scaled with them.                     *)

\* is_compatible_table without its test of the maximum.
is_compatible_table_noMax(ex, im) ==
    (ex.ty = "FuncRef" \/ ex.ty = im.ty) /\ im.minimum <= ex.minimum

\* resolver.rs is_compatible_table
is_compatible_table(ex, im) ==
    /\ (ex.ty = "FuncRef" \/ ex.ty = im.ty)
    /\ im.minimum <= ex.minimum
    /\ (im.maximum = {}
        \/ (ex.maximum # {} /\ (CHOOSE x \in im.maximum : TRUE) >= (CHOOSE x \in ex.maximum : TRUE)))

\* resolver.rs is_compatible_memory
is_compatible_memory(ex, im) ==
    /\ im.minimum <= ex.minimum
    /\ (im.maximum = {}
        \/ (ex.maximum # {} /\ (CHOOSE x \in im.maximum : TRUE) >= (CHOOSE x \in ex.maximum : TRUE)))
    /\ ex.shared = im.shared

\* One turn of the loop of resolve_imports: the import im and what the
\* resolver returned for it.  Every LinkError of the function is built with
\* None.unwrap() as an argument, which panics before the error exists; the
\* memory styles are compared by assert_ge!, which panics too.
resolve_import(resolved, im) ==
    IF resolved = {} THEN "panic UnknownImport"
    ELSE LET ex == CHOOSE e \in resolved : TRUE IN
        IF ex.kind = "Function" /\ im.kind = "Function" /\ ex.sig = im.sig
        THEN "accept"
        ELSE IF ex.kind = "Table" /\ im.kind = "Table" /\ is_compatible_table(ex, im)
        THEN IF ex.ty # im.ty THEN "panic IncompatibleType" ELSE "accept"
        ELSE IF ex.kind = "Memory" /\ im.kind = "Memory" /\ is_compatible_memory(ex, im)
        THEN IF ex.style.static /\ im.style.static /\ ~(ex.style.bound >= im.style.bound)
             THEN "panic assert_ge"
             ELSE IF ~(ex.style.guard >= im.style.guard)
             THEN "panic assert_ge"
             ELSE "accept"
        ELSE IF ex.kind = "Global" /\ im.kind = "Global" /\ ex = im
        THEN "accept"
        ELSE "panic IncompatibleType"

\* resolve_imports: the imports are taken in order; the first that is not
\* accepted ends the call.
RECURSIVE resolve_imports(_, _, _)
resolve_imports(imports, resolver, i) ==
    IF i > Len(imports) THEN [tag |-> "Ok", at |-> 0, why |-> "none", resolved |-> Len(imports)]
    ELSE LET r == resolve_import(resolver[i], imports[i].ty) IN
         IF r = "accept" THEN resolve_imports(imports, resolver, i + 1)
         ELSE [tag |-> "panic", at |-> i, why |-> r, resolved |-> i - 1]

\* Singlepass::new: the compiler's intrinsics.
intrinsics == {[kind |-> "Gas", name |-> "gas", signature |-> FunctionType(<<"I32">>, <<>>)]}

\* Is a call of the host import of that name and type compiled inline?
is_intrinsic(name, sig) ==
    \E intr \in intrinsics : intr.name = name /\ intr.signature = sig

\* The start function: calls of host imports with literal arguments, in
\* order.  An intrinsic call charges gas inline and may trap; any other
\* call reaches the host function bound to the import.
RECURSIVE run_start(_, _, _, _, _)
run_start(body, burnt, cost, limit, reached) ==
    IF body = <<>> THEN [trap |-> "none", reached |-> reached, burnt |-> burnt]
    ELSE LET c == Head(body) IN
         IF c.op = "unreachable"
         THEN [trap |-> "UnreachableCodeReached", reached |-> reached, burnt |-> burnt]
         ELSE IF is_intrinsic(c.op, c.sig)
         THEN LET new == gas_add(burnt, c.arg, cost) IN
              IF gas_exceeded(new, limit)
              THEN [trap |-> "GasLimitExceeded", reached |-> reached, burnt |-> new]
              ELSE run_start(Tail(body), new, cost, limit, reached)
         ELSE run_start(Tail(body), burnt, cost, limit, reached \cup {c.op})

\* Module::exports: ExportsIterator::new(std::iter::empty(), 0).
Module_exports(declared) == {}

\* A check of opcode_cost that also turns i32::MAX down.
gas_config_ok_strict(cost) == cost < I32_MAX

\* new_with_config: opcode_cost > i32::MAX is IncorrectGasMeteringConfig.
gas_config_ok(cost) == ~(cost > I32_MAX)

\* A finish_instantiation that does not see the segments fail.
finish_instantiation_noSegments(in) ==
    run_start(in.start, 0, in.opcode_cost, in.gas_limit, {}).trap

\* Artifact::finish_instantiation: the active data and element segments
\* are applied, then the start function runs; the result is the trap that
\* stopped it, or "none".
finish_instantiation(in) ==
    IF ~in.segments_fit THEN "HeapAccessOutOfBounds"
    ELSE run_start(in.start, 0, in.opcode_cost, in.gas_limit, {}).trap

\* An outcome of Instance::new_with_config.
Outcome(tag, err, link, reached, exports) ==
    [tag |-> tag, err |-> err, at |-> link.at, why |-> link.why,
     resolved |-> link.resolved, reached |-> reached, exports |-> exports]

\* Instance::new_with_config: the check of opcode_cost, Module::instantiate
\* (the artifact's instantiate, which resolves the imports, then
\* finish_instantiation, which applies the segments and runs the start
\* function), then the exports of the instance.
new_with_config(in) ==
    LET nolink == [at |-> 0, why |-> "none", resolved |-> 0] IN
    IF ~gas_config_ok(in.opcode_cost)
    THEN Outcome("Err", "IncorrectGasMeteringConfig", nolink, {}, {})
    ELSE LET link == resolve_imports(in.imports, in.resolver, 1) IN
         IF link.tag = "panic"
         THEN Outcome("panic", "none", link, {}, {})
         ELSE LET trap == finish_instantiation(in)
                  reached == IF in.segments_fit
                             THEN run_start(in.start, 0, in.opcode_cost, in.gas_limit, {}).reached
                             ELSE {}
              IN IF trap # "none"
                 THEN Outcome("Err", "Start " \o trap, link, reached, {})
                 ELSE IF ~in.host_env_ok
                 THEN Outcome("Err", "HostEnvInitialization", link, reached, {})
                 ELSE Outcome("Ok", "none", link, reached, Module_exports(in.exports))

\* The extern types the imports and exports are drawn from.
ExternTypes ==
    LET Maxima == {{}, {1}, {2}}
        Styles == {[static |-> FALSE, bound |-> 0, guard |-> g] : g \in {0, 1}}
                  \cup {[static |-> TRUE, bound |-> b, guard |-> g] : b \in {1, 2}, g \in {0, 1}}
    IN {[kind |-> "Function", sig |-> x] : x \in {0, 1}}
       \cup {[kind |-> "Table", ty |-> t, minimum |-> n, maximum |-> m] :
                t \in {"FuncRef", "ExternRef"}, n \in {0, 1}, m \in Maxima}
       \cup {[kind |-> "Memory", minimum |-> n, maximum |-> m, shared |-> sh, style |-> st] :
                n \in {0, 1}, m \in {{}, {1}}, sh \in BOOLEAN, st \in Styles}
       \cup {[kind |-> "Global", ty |-> t, mutable |-> mu] : t \in ValTypes, mu \in BOOLEAN}

\* What is given to Instance::new_with_config: modules that import
\* host.hit, resolved to a function of its type, and then one import more
\* with whatever the resolver has for it; and modules that import host.hit,
\* host.gas and host.gas64, resolved to functions of their types, with a
\* start function, segments, exports, an InstanceConfig of any kind and at
\* most one import more.
Scenarios ==
    LET hit == [module |-> "host", field |-> "hit", ty |-> [kind |-> "Function", sig |-> 0]]
        env(im) == [module |-> "env", field |-> "f", ty |-> im]
        host == <<hit,
                  [module |-> "host", field |-> "gas", ty |-> [kind |-> "Function", sig |-> 1]],
                  [module |-> "host", field |-> "gas64", ty |-> [kind |-> "Function", sig |-> 2]]>>
        call(op, sig, arg) == [op |-> op, sig |-> sig, arg |-> arg]
        Calls == {call("gas", FunctionType(<<"I32">>, <<>>), 1),
                  call("gas", FunctionType(<<"I32">>, <<>>), U64_MAX),
                  call("gas64", FunctionType(<<"I64">>, <<>>), 1),
                  call("hit", FunctionType(<<>>, <<>>), 0),
                  call("unreachable", FunctionType(<<>>, <<>>), 0)}
        Scenario(ims, res, cost, limit, start, fit, envok, exps) ==
            [imports |-> ims, resolver |-> res, opcode_cost |-> cost, gas_limit |-> limit,
             start |-> start, segments_fit |-> fit, host_env_ok |-> envok, exports |-> exps]
    IN {Scenario(<<hit, env(im)>>, <<{hit.ty}, res>>, 1, U64_MAX, <<>>, TRUE, TRUE, {"f"}) :
            im \in ExternTypes, res \in {{}} \cup {{ex} : ex \in ExternTypes}}
       \cup {Scenario(host \o SubSeq(<<env(hit.ty)>>, 1, Len(res)),
                     [i \in 1..Len(host) |-> {host[i].ty}] \o res,
                     cost, limit, start, fit, envok, exps) :
            res \in {<<>>, <<{}>>, <<{hit.ty}>>},
            cost \in {0, 1, I32_MAX, I32_MAX + 1, U64_MAX},
            limit \in {0, U64_MAX}, start \in SeqsUpTo(Calls, 2),
            fit \in BOOLEAN, envok \in BOOLEAN, exps \in {{}, {"f", "memory"}}}

InitInst ==
    /\ iIn \in Scenarios
    /\ iOut = NoOutcome
    /\ InitSigIdle /\ InitGuestIdle /\ InitLoadIdle /\ InitSerIdle /\ InitCompileIdle
    /\ InitMachineIdle
    /\ InitEngineIdle
    /\ InitExportIdle
    /\ InitIndexIdle
    /\ InitCpuIdle /\ InitPsmIdle

\* Instance::new_with_config(module, config, resolver)
NewInstance ==
    /\ iOut = NoOutcome
    /\ iOut' = new_with_config(iIn)
    /\ UNCHANGED <<iIn, instOthers>>

NextInst == NewInstance

SpecInst == InitInst /\ [][NextInst]_vars

\* The first import that resolve_imports does not accept, 0 when it
\* accepts them all.
FirstRefused(in) == resolve_imports(in.imports, in.resolver, 1).at

\* The type rules of the link step for an export ex offered to an import
\* im; for a memory, with or without the rules on the memory style.
Fits(ex, im, styles) ==
    /\ ex.kind = im.kind
    /\ ex.kind = "Function" => ex.sig = im.sig
    /\ ex.kind = "Table" =>
        /\ ex.ty = im.ty
        /\ ex.minimum >= im.minimum
        /\ im.maximum # {} =>
            (ex.maximum # {} /\ (CHOOSE x \in ex.maximum : TRUE) <= (CHOOSE x \in im.maximum : TRUE))
    /\ ex.kind = "Memory" =>
        /\ ex.minimum >= im.minimum
        /\ im.maximum # {} =>
            (ex.maximum # {} /\ (CHOOSE x \in ex.maximum : TRUE) <= (CHOOSE x \in im.maximum : TRUE))
        /\ ex.shared = im.shared
        /\ styles =>
            /\ (ex.style.static /\ im.style.static) => ex.style.bound >= im.style.bound
            /\ ex.style.guard >= im.style.guard
    /\ ex.kind = "Global" => ex = im

\* C11: when the resolver has nothing for a declared import, instantiation
\* returns LinkError::UnknownImport, an error value that names the import,
\* and no instance is created.
C11_UnknownImport ==
    (/\ iOut.tag # "none"
     /\ gas_config_ok(iIn.opcode_cost)
     /\ FirstRefused(iIn) # 0
     /\ iIn.resolver[FirstRefused(iIn)] = {})
    => (iOut.tag = "Err" /\ iOut.err = "Link UnknownImport" /\ iOut.at = FirstRefused(iIn))

\* C12: when the export the resolver has for an import does not fit it,
\* instantiation returns LinkError::IncompatibleType, an error value: the
\* export is not accepted and the call does not abort.
C12_IncompatibleType ==
    (/\ iOut.tag # "none"
     /\ gas_config_ok(iIn.opcode_cost)
     /\ \E i \in DOMAIN iIn.imports :
            /\ \A j \in 1..(i - 1) : resolve_import(iIn.resolver[j], iIn.imports[j].ty) = "accept"
            /\ iIn.resolver[i] # {}
            /\ ~Fits(CHOOSE ex \in iIn.resolver[i] : TRUE, iIn.imports[i].ty, TRUE))
    => (iOut.tag = "Err" /\ iOut.err = "Link IncompatibleType")

\* The imports of the last call that resolve_imports came to and for which
\* the resolver had an export.
Offered == {i \in DOMAIN iIn.imports :
                /\ iOut.tag # "none"
                /\ gas_config_ok(iIn.opcode_cost)
                /\ iIn.resolver[i] # {}
                /\ i <= iOut.resolved + 1}

\* C13 as stated: an offered export is accepted iff it is a function of the
\* import's signature index, a table or a memory within the import's limits
\* (a memory with the same shared flag), or a global of the import's type.
C13_Original ==
    \A i \in Offered :
        (i <= iOut.resolved) <=> Fits(CHOOSE ex \in iIn.resolver[i] : TRUE, iIn.imports[i].ty, FALSE)

\* C13: an offered export is accepted iff it fits by those rules and, for a
\* memory, its style has a guard size no smaller than the import's and, both
\* styles being static, a bound no smaller than the import's.
C13_AcceptIff ==
    \A i \in Offered :
        (i <= iOut.resolved) <=> Fits(CHOOSE ex \in iIn.resolver[i] : TRUE, iIn.imports[i].ty, TRUE)

\* A table with a maximum has been accepted for an import that declares a
\* larger maximum.
C13_Witness ==
    /\ iOut.tag = "Ok"
    /\ \E i \in Offered :
        /\ iIn.imports[i].ty.kind = "Table"
        /\ iIn.imports[i].ty.maximum = {2}
        /\ (CHOOSE ex \in iIn.resolver[i] : TRUE).maximum = {1}

\* C15: when a segment or the start function traps, instantiation returns
\* InstantiationError::Start with that trap and hands no instance over.
C15_StartTrap ==
    (/\ iOut.tag # "none"
     /\ gas_config_ok(iIn.opcode_cost)
     /\ FirstRefused(iIn) = 0
     /\ (~iIn.segments_fit
         \/ run_start(iIn.start, 0, iIn.opcode_cost, iIn.gas_limit, {}).trap # "none"))
    => /\ iOut.tag = "Err"
       /\ iOut.exports = {}
       /\ iOut.err = IF ~iIn.segments_fit THEN "Start HeapAccessOutOfBounds"
                     ELSE "Start " \o run_start(iIn.start, 0, iIn.opcode_cost, iIn.gas_limit, {}).trap

\* Instantiation has failed with the gas trap of the start function, and
\* with the trap of a segment.
C15_Witness ==
    /\ iOut.tag = "Err"
    /\ iOut.err = "Start GasLimitExceeded"
    /\ iIn.segments_fit
    /\ iIn.start # <<>>

\* C16: after a successful Instance::new every export the module declares
\* is in instance.exports under its name.
C16_ExportsPresent ==
    iOut.tag = "Ok" => iOut.exports = iIn.exports

\* C17: an opcode_cost above i32::MAX fails with
\* IncorrectGasMeteringConfig before an import is resolved or guest code
\* runs, and no opcode_cost up to i32::MAX fails that way.
C17_OpcodeCostCap ==
    iOut.tag # "none" =>
        /\ (iIn.opcode_cost > I32_MAX) <=> (iOut.err = "IncorrectGasMeteringConfig")
        /\ iOut.err = "IncorrectGasMeteringConfig" =>
            (iOut.tag = "Err" /\ iOut.resolved = 0 /\ iOut.reached = {} /\ iOut.exports = {})

\* An opcode_cost of i32::MAX + 1 has been refused for a module whose
\* import would not resolve and whose start function would call the host.
C17_Witness ==
    /\ iOut.err = "IncorrectGasMeteringConfig"
    /\ iIn.opcode_cost = I32_MAX + 1
    /\ FirstRefused(iIn) # 0
    /\ iIn.start # <<>>

\* C19: calls of host.gas and host.gas64 with literal arguments are
\* compiled inline: the host functions bound to these imports are never
\* reached.
C19_NeverReachHost ==
    iOut.tag # "none" => ("gas" \notin iOut.reached /\ "gas64" \notin iOut.reached)

-----------------------------------------------------------------------------
(* SpecMachine: the calls the code generator makes on one Machine while it *)
(* compiles a function body.                                               *)
(*                                                                         *)
(* A Location is GPR(r), XMM(r) or Memory(base, disp).  An Option is the   *)
(* empty set or a set of one value.  The code generator keeps the location *)
(* lists it acquired on its value stack and releases the newest first.     *)
(* mLast keeps, of a release that directly follows its acquire, the        *)
(* machine state before that acquire and the locations released.           *)
(* A panic (a failed assertion or unreachable!) ends the compilation.      *)

\* Bound: how many acquired location lists the code generator holds at once.
MaxHeld == 2

GPR(r) == [kind |-> "GPR", reg |-> r, disp |-> 0]
XMM(r) == [kind |-> "XMM", reg |-> r, disp |-> 0]
Memory(base, disp) == [kind |-> "Memory", reg |-> base, disp |-> disp]

\* The first register of regs that is not in used, if there is one.
first_unused(regs, used) ==
    LET free == {i \in 1..Len(regs) : regs[i] \notin used} IN
    IF free = {} THEN {}
    ELSE {regs[CHOOSE i \in free : \A j \in free : i <= j]}

\* A pick that takes the last free register of the order.
pick_gpr_last(m) ==
    LET regs == <<"RSI", "RDI", "R8", "R9", "R10", "R11">>
        free == {i \in 1..Len(regs) : regs[i] \notin m.used_gprs}
    IN  IF free = {} THEN {}
        ELSE {regs[CHOOSE i \in free : \A j \in free : i >= j]}

pick_gpr(m) == first_unused(<<"RSI", "RDI", "R8", "R9", "R10", "R11">>, m.used_gprs)

\* A temporary pick that starts with a register of the value class.
pick_temp_gpr_shared(m) == first_unused(<<"RSI", "RAX", "RCX", "RDX">>, m.used_gprs)

pick_temp_gpr(m) == first_unused(<<"RAX", "RCX", "RDX">>, m.used_gprs)

pick_xmm(m) == first_unused(<<"XMM3", "XMM4", "XMM5", "XMM6", "XMM7">>, m.used_xmms)

pick_temp_xmm(m) == first_unused(<<"XMM0", "XMM1", "XMM2">>, m.used_xmms)

acquire_temp_gpr(m) ==
    LET gpr == pick_temp_gpr(m) IN
    [m |-> [m EXCEPT !.used_gprs = @ \cup gpr], ret |-> gpr]

release_temp_gpr(m, gpr) ==
    [panic |-> gpr \notin m.used_gprs, m |-> [m EXCEPT !.used_gprs = @ \ {gpr}]]

acquire_temp_xmm(m) ==
    LET xmm == pick_temp_xmm(m) IN
    [m |-> [m EXCEPT !.used_xmms = @ \cup xmm], ret |-> xmm]

release_temp_xmm(m, xmm) ==
    [panic |-> xmm \notin m.used_xmms, m |-> [m EXCEPT !.used_xmms = @ \ {xmm}]]

\* The loop of acquire_locations over the types that are left: ret is the
\* list so far, delta the bytes of the stack slots taken so far.
RECURSIVE acquire_loop(_, _, _, _)
acquire_loop(m, tys, ret, delta) ==
    IF tys = <<>> THEN [panic |-> FALSE, m |-> m, ret |-> ret, sub |-> delta]
    ELSE LET ty == Head(tys) IN
        IF ty \notin {"F32", "F64", "I32", "I64", "FuncRef", "ExternRef"}
        THEN [panic |-> TRUE, m |-> m, ret |-> ret, sub |-> 0]
        ELSE LET opt == IF ty \in {"F32", "F64"}
                        THEN {XMM(r) : r \in pick_xmm(m)}
                        ELSE {GPR(r) : r \in pick_gpr(m)}
                 m1 == IF opt = {} THEN [m EXCEPT !.stack_offset = @ + 8] ELSE m
                 loc == IF opt = {} THEN Memory("RBP", -(m1.stack_offset))
                        ELSE CHOOSE x \in opt : TRUE
                 m2 == IF loc.kind = "GPR"
                       THEN [m1 EXCEPT !.used_gprs = @ \cup {loc.reg}]
                       ELSE IF loc.kind = "XMM"
                       THEN [m1 EXCEPT !.used_xmms = @ \cup {loc.reg}]
                       ELSE m1
             IN  acquire_loop(m2, Tail(tys), Append(ret, loc),
                              IF opt = {} THEN delta + 8 ELSE delta)

\* acquire_locations(assembler, tys, zeroed): the new machine state, the
\* locations returned and the bytes the emitted code subtracts from rsp.
\* (zeroed only emits moves into the returned locations.)
acquire_locations(m, tys) == acquire_loop(m, tys, <<>>, 0)

\* One turn of the loop of release_locations.
release_one(m, loc) ==
    IF loc.kind = "GPR"
    THEN [panic |-> loc.reg \notin m.used_gprs,
          m |-> [m EXCEPT !.used_gprs = @ \ {loc.reg}], add |-> 0]
    ELSE IF loc.kind = "XMM"
    THEN [panic |-> loc.reg \notin m.used_xmms,
          m |-> [m EXCEPT !.used_xmms = @ \ {loc.reg}], add |-> 0]
    ELSE IF loc.kind = "Memory" /\ loc.reg = "RBP"
    THEN IF loc.disp >= 0 \/ -(loc.disp) # m.stack_offset
         THEN [panic |-> TRUE, m |-> m, add |-> 0]
         ELSE [panic |-> FALSE, m |-> [m EXCEPT !.stack_offset = @ - 8], add |-> 8]
    ELSE [panic |-> FALSE, m |-> m, add |-> 0]

\* The loop of release_locations over locs in the order given.
RECURSIVE release_each(_, _, _)
release_each(m, locs, delta) ==
    IF locs = <<>> THEN [panic |-> FALSE, m |-> m, add |-> delta]
    ELSE LET r == release_one(m, Head(locs)) IN
        IF r.panic THEN [panic |-> TRUE, m |-> r.m, add |-> 0]
        ELSE release_each(r.m, Tail(locs), delta + r.add)

Reverse(q) == [i \in 1..Len(q) |-> q[Len(q) + 1 - i]]

\* A release that walks the locations first to last.
release_locations_forward(m, locs) == release_each(m, locs, 0)

\* release_locations(assembler, locs): walks locs last to first; the new
\* machine state and the bytes the emitted code adds to rsp.
release_locations(m, locs) == release_each(m, Reverse(locs), 0)

\* The Machine as a value, and its assignment.
Cur == [used_gprs |-> used_gprs, used_xmms |-> used_xmms, stack_offset |-> stack_offset]

SetMachine(m) ==
    /\ used_gprs' = m.used_gprs
    /\ used_xmms' = m.used_xmms
    /\ stack_offset' = m.stack_offset
    /\ UNCHANGED frameVars

Called(op, out, before, locs, paired) ==
    [op |-> op, out |-> IF out THEN "panic" ELSE "ok", before |-> before,
     locs |-> locs, paired |-> paired]

\* The type lists the code generator asks locations for: operands and
\* multi-value results of the value types, some with more values of a class
\* than there are registers, and a V128, which the generator has no
\* location for.
TypeLists ==
    {<<>>, <<"I32">>,
     <<"I32", "F32", "I64", "FuncRef", "F64", "ExternRef", "I32", "I64", "I32", "I32">>,
     <<"F32", "F64", "F32", "F64", "F32", "F64">>,
     <<"I32", "V128">>}

InitMachine ==
    /\ used_gprs = Machine_new.used_gprs
    /\ used_xmms = Machine_new.used_xmms
    /\ stack_offset = Machine_new.stack_offset
    /\ save_area_offset = {}
    /\ locals_offset = 0
    /\ rsp_sub = 0
    /\ mHeld = <<>>
    /\ mLast = NoCall
    /\ InitSigIdle /\ InitGuestIdle /\ InitLoadIdle /\ InitSerIdle /\ InitCompileIdle
    /\ InitInstIdle
    /\ InitEngineIdle
    /\ InitExportIdle
    /\ InitIndexIdle
    /\ InitCpuIdle /\ InitPsmIdle

\* machine.acquire_locations(assembler, tys, zeroed); the code generator
\* pushes the returned list on its value stack.
AcquireLocations(tys) ==
    /\ mLast.out # "panic"
    /\ Len(mHeld) < MaxHeld
    /\ LET r == acquire_locations(Cur, tys) IN
        /\ SetMachine(r.m)
        /\ rsp_sub' = rsp_sub + r.sub
        /\ mHeld' = IF r.panic THEN mHeld ELSE Append(mHeld, r.ret)
        /\ mLast' = Called("acquire", r.panic, Cur, r.ret, FALSE)
    /\ UNCHANGED machineOthers

\* machine.release_locations(assembler, locs) on the newest list held.
ReleaseLocations ==
    /\ mLast.out # "panic"
    /\ mHeld # <<>>
    /\ LET locs == mHeld[Len(mHeld)]
           r == release_locations(Cur, locs)
       IN  /\ SetMachine(r.m)
           /\ rsp_sub' = rsp_sub - r.add
           /\ mHeld' = SubSeq(mHeld, 1, Len(mHeld) - 1)
           /\ mLast' = IF mLast.op = "acquire"
                       THEN Called("release", r.panic, mLast.before, locs, TRUE)
                       ELSE Called("release", r.panic, Machine_new, <<>>, FALSE)
    /\ UNCHANGED machineOthers

\* machine.acquire_temp_gpr()
AcquireTempGpr ==
    /\ mLast.out # "panic"
    /\ SetMachine(acquire_temp_gpr(Cur).m)
    /\ mLast' = Called("acquire_temp_gpr", FALSE, Machine_new, <<>>, FALSE)
    /\ UNCHANGED <<rsp_sub, mHeld, machineOthers>>

\* machine.release_temp_gpr(gpr)
ReleaseTempGpr(gpr) ==
    /\ mLast.out # "panic"
    /\ LET r == release_temp_gpr(Cur, gpr) IN
        /\ SetMachine(r.m)
        /\ mLast' = Called("release_temp_gpr", r.panic, Machine_new, <<>>, FALSE)
    /\ UNCHANGED <<rsp_sub, mHeld, machineOthers>>

\* machine.acquire_temp_xmm()
AcquireTempXmm ==
    /\ mLast.out # "panic"
    /\ SetMachine(acquire_temp_xmm(Cur).m)
    /\ mLast' = Called("acquire_temp_xmm", FALSE, Machine_new, <<>>, FALSE)
    /\ UNCHANGED <<rsp_sub, mHeld, machineOthers>>

\* machine.release_temp_xmm(xmm)
ReleaseTempXmm(xmm) ==
    /\ mLast.out # "panic"
    /\ LET r == release_temp_xmm(Cur, xmm) IN
        /\ SetMachine(r.m)
        /\ mLast' = Called("release_temp_xmm", r.panic, Machine_new, <<>>, FALSE)
    /\ UNCHANGED <<rsp_sub, mHeld, machineOthers>>

NextMachine ==
    \/ \E tys \in TypeLists : AcquireLocations(tys)
    \/ ReleaseLocations
    \/ AcquireTempGpr
    \/ \E gpr \in {"RAX", "RCX", "RDX"} : ReleaseTempGpr(gpr)
    \/ AcquireTempXmm
    \/ \E xmm \in {"XMM0", "XMM1", "XMM2"} : ReleaseTempXmm(xmm)

SpecMachine == InitMachine /\ [][NextMachine]_vars

\* C20: acquire_locations followed by release_locations on the returned
\* locations does not fail and restores the stack offset and the used
\* general-purpose and SIMD register sets to their values before the
\* acquire, whatever the machine state and the type list were.
C20_AcquireReleaseRestores ==
    (mLast.op = "release" /\ mLast.paired) =>
        /\ mLast.out = "ok"
        /\ Cur = mLast.before

\* A list that took registers and more than one stack slot has just been
\* acquired and released again, on a machine that had registers of both
\* classes, a temporary among them, and a stack slot in use.
C20_Witness ==
    /\ mLast.op = "release"
    /\ mLast.paired
    /\ Len(mLast.locs) > 0
    /\ mLast.locs[1].kind = "GPR"
    /\ Cardinality({i \in 1..Len(mLast.locs) : mLast.locs[i].kind = "Memory"}) > 1
    /\ "RAX" \in used_gprs
    /\ used_xmms # {}
    /\ stack_offset > 0

-----------------------------------------------------------------------------
(* SpecFrame: the Machine over one function: the prologue of init_locals,  *)
(* then locations acquired and released with each of the release calls.    *)
(*                                                                         *)
(* mHeld keeps of every acquired list the locations that are still held.   *)
(* rsp_sub follows the emitted instructions in the order they are emitted: *)
(* a sub of rsp adds to it, an add of rsp takes from it.                   *)

\* Bound: release_locations_keep_state is modelled while the adds it has
\* emitted so far make up less than MaxKept stack slots.
MaxKept == 1

LOCAL_REGISTERS == <<"R12", "R13", "R14", "RBX">>

\* A prologue that reserves the stack locals but does not count them in the
\* tracked offset.
init_locals_noLocals(m, n, calling_convention) ==
    LET saved == 8 * Min(Len(LOCAL_REGISTERS), n) + 8
                 + (IF calling_convention = "WindowsFastcall" THEN 16 ELSE 0)
        locals_size == Max(n - Len(LOCAL_REGISTERS), 0) * 8
    IN  [m |-> [m EXCEPT !.stack_offset = @ + saved],
         save_area_offset |-> {m.stack_offset + saved},
         locals_offset |-> saved + 8,
         sub |-> saved + locals_size]

\* init_locals(a, n, n_params, calling_convention), as far as the stack
\* goes: the static area holds the callee-saved registers used for locals,
\* R15 and, under the Windows convention, RDI and RSI; one sub of rsp takes
\* the static area and the stack locals; the tracked offset counts each
\* saved register and then the stack locals.
init_locals(m, n, calling_convention) ==
    LET static_area_size == 8 * Min(Len(LOCAL_REGISTERS), n) + 8
                            + (IF calling_convention = "WindowsFastcall" THEN 16 ELSE 0)
        locals_size == Max(n - Len(LOCAL_REGISTERS), 0) * 8
        saved == m.stack_offset + 8 * Min(n, Len(LOCAL_REGISTERS)) + 8
                 + (IF calling_convention = "WindowsFastcall" THEN 16 ELSE 0)
    IN  [m |-> [m EXCEPT !.stack_offset = saved + locals_size],
         save_area_offset |-> {saved},
         locals_offset |-> static_area_size + 8,
         sub |-> static_area_size + locals_size]

IsRegister(loc) == loc.kind \in {"GPR", "XMM"}

IsStackSlot(loc) == loc.kind = "Memory" /\ loc.reg = "RBP"

\* release_locations_only_regs(locs): the registers of locs, last to first.
release_locations_only_regs(m, locs) ==
    release_each(m, SelectSeq(Reverse(locs), IsRegister), 0)

\* release_locations_only_stack(assembler, locs): the stack slots of locs,
\* last to first, and the add of rsp.
release_locations_only_stack(m, locs) ==
    release_each(m, SelectSeq(Reverse(locs), IsStackSlot), 0)

\* release_locations_keep_state(assembler, locs): walks the stack slots of
\* locs on a copy of the offset, emits the add of rsp and leaves the Machine
\* as it is.
release_locations_keep_state(m, locs) ==
    LET r == release_each(m, SelectSeq(Reverse(locs), IsStackSlot), 0) IN
    [panic |-> r.panic, m |-> m, add |-> r.add]

\* The local counts and calling conventions of the modelled functions.
LocalCounts == {0, 6}

CallingConventions == {"SystemV", "WindowsFastcall"}

\* The top list of mHeld replaced by what is left of it.
Retop(held, left) ==
    IF left = <<>> THEN SubSeq(held, 1, Len(held) - 1)
    ELSE [held EXCEPT ![Len(held)] = left]

\* machine.init_locals(a, n, n_params, calling_convention), the first call
\* on the Machine of a function; pfn keeps what it was called with.
InitLocals(n, calling_convention) ==
    /\ mLast = NoCall
    /\ LET r == init_locals(Cur, n, calling_convention) IN
        /\ stack_offset' = r.m.stack_offset
        /\ save_area_offset' = r.save_area_offset
        /\ locals_offset' = r.locals_offset
        /\ rsp_sub' = rsp_sub + r.sub
        /\ mLast' = Called("init_locals", FALSE, Cur, <<>>, FALSE)
    /\ pfn' = [phase |-> "compiling", n |-> n,
                calling_convention |-> calling_convention]
    /\ UNCHANGED <<used_gprs, used_xmms, mHeld, pcpu, sigVars, guestVars, loadVars,
                   serVars, compileVars, instVars, engineVars, exportVars, indexVars,
                   psmVars>>

\* machine.release_locations_only_regs(locs) on the newest list held.
ReleaseOnlyRegs ==
    /\ mLast.out # "panic"
    /\ mHeld # <<>>
    /\ LET locs == mHeld[Len(mHeld)]
           r == release_locations_only_regs(Cur, locs)
       IN  /\ SetMachine(r.m)
           /\ mHeld' = Retop(mHeld, SelectSeq(locs, IsStackSlot))
           /\ mLast' = Called("release_only_regs", r.panic, Machine_new, locs, FALSE)
    /\ UNCHANGED <<rsp_sub, machineOthers>>

\* machine.release_locations_only_stack(assembler, locs) on the newest list
\* held.
ReleaseOnlyStack ==
    /\ mLast.out # "panic"
    /\ mHeld # <<>>
    /\ LET locs == mHeld[Len(mHeld)]
           r == release_locations_only_stack(Cur, locs)
       IN  /\ SetMachine(r.m)
           /\ rsp_sub' = rsp_sub - r.add
           /\ mHeld' = Retop(mHeld, SelectSeq(locs, IsRegister))
           /\ mLast' = Called("release_only_stack", r.panic, Machine_new, locs, FALSE)
    /\ UNCHANGED machineOthers

\* machine.release_locations_keep_state(assembler, locs) on the k newest
\* lists held, as a branch out of k nested blocks does.
ReleaseKeepState(k) ==
    /\ mLast.out # "panic"
    /\ k <= Len(mHeld)
    /\ stack_offset - rsp_sub < 8 * MaxKept
    /\ LET locs == Flatten(SubSeq(mHeld, Len(mHeld) - k + 1, Len(mHeld)))
           r == release_locations_keep_state(Cur, locs)
       IN  /\ SetMachine(r.m)
           /\ rsp_sub' = rsp_sub - r.add
           /\ mLast' = Called("release_keep_state", r.panic, Machine_new, locs, FALSE)
    /\ UNCHANGED <<mHeld, machineOthers>>

NextFrame ==
    \/ \E n \in LocalCounts : \E cc \in CallingConventions : InitLocals(n, cc)
    \/ \E tys \in TypeLists : AcquireLocations(tys)
    \/ ReleaseLocations
    \/ ReleaseOnlyRegs
    \/ ReleaseOnlyStack
    \/ \E k \in 1..MaxHeld : ReleaseKeepState(k)

SpecFrame == InitMachine /\ [][NextFrame]_vars

\* The bytes of the stack slots among locs.
SlotBytes(locs) == 8 * Len(SelectSeq(locs, IsStackSlot))

\* C21 as stated: whatever init_locals, acquire and release calls were
\* made, the tracked stack offset is the net number of bytes the emitted
\* code has subtracted from rsp.  (A call that panics ends the compilation;
\* its code is never run.)
C21_Original == mLast.out # "panic" => stack_offset = rsp_sub

\* C21: init_locals, acquire_locations, release_locations,
\* release_locations_only_stack and release_locations_only_regs change the
\* tracked stack offset by exactly the bytes their emitted code subtracts
\* from rsp; release_locations_keep_state emits the add of rsp for the stack
\* slots it is given and leaves the tracked offset as it is.  (A call that
\* panics ends the compilation.)
C21_OffsetTracksRsp ==
    [][mLast'.out # "panic" =>
        IF mLast'.op = "release_keep_state"
        THEN /\ stack_offset' = stack_offset
             /\ rsp_sub' = rsp_sub - SlotBytes(mLast'.locs)
        ELSE stack_offset' - rsp_sub' = stack_offset - rsp_sub]_vars

\* In a function with stack locals, stack slots have been given back to
\* rsp by release_locations_keep_state and are still tracked.
C21_Witness ==
    /\ mLast.op = "release_keep_state"
    /\ save_area_offset # {}
    /\ stack_offset > CHOOSE x \in save_area_offset : TRUE
    /\ rsp_sub < stack_offset
    /\ rsp_sub > 0

\* The locations of the lists the code generator holds, oldest first.
HeldLocs == Flatten(mHeld)

\* The registers of a class among the locations held.
HeldRegs(kind) ==
    {HeldLocs[i].reg : i \in {j \in 1..Len(HeldLocs) : HeldLocs[j].kind = kind}}

\* The registers acquire_locations picks from.
ValueGprs == {"RSI", "RDI", "R8", "R9", "R10", "R11"}
ValueXmms == {"XMM3", "XMM4", "XMM5", "XMM6", "XMM7"}

\* The registers the temporaries are picked from.
TempGprs == {"RAX", "RCX", "RDX"}
TempXmms == {"XMM0", "XMM1", "XMM2"}

\* R15 (get_vmctx_reg), and the stack and frame pointers.
ReservedGprs == {"R15", "RSP", "RBP"}

LocalGprs == {LOCAL_REGISTERS[i] : i \in 1..Len(LOCAL_REGISTERS)}

\* C38: the registers the lists held were given, the temporaries in use,
\* the registers of the locals and the reserved registers are pairwise
\* disjoint, and no register or stack slot is in two places of the lists
\* held, two places of one list included.  (A call that panics ends the
\* compilation.)
C38_RegistersDisjoint ==
    mLast.out # "panic" =>
      /\ \A i, j \in 1..Len(HeldLocs) : i # j => HeldLocs[i] # HeldLocs[j]
      /\ HeldRegs("GPR") = used_gprs \cap ValueGprs
      /\ HeldRegs("XMM") = used_xmms \cap ValueXmms
      /\ used_gprs \ HeldRegs("GPR") \subseteq TempGprs
      /\ used_xmms \ HeldRegs("XMM") \subseteq TempXmms
      /\ pick_gpr(Cur) \subseteq ValueGprs
      /\ pick_xmm(Cur) \subseteq ValueXmms
      /\ pick_temp_gpr(Cur) \subseteq TempGprs
      /\ pick_temp_xmm(Cur) \subseteq TempXmms
      /\ \A a, b \in {ValueGprs, TempGprs, LocalGprs, ReservedGprs} :
            a # b => a \cap b = {}
      /\ ValueXmms \cap TempXmms = {}
      /\ \A i \in 1..Len(HeldLocs) :
            HeldLocs[i].kind = "Memory" =>
              /\ HeldLocs[i].reg = "RBP"
              /\ -(HeldLocs[i].disp) \in 8..stack_offset

\* Two lists are held, the newer one just acquired, with registers of both
\* classes and stack slots in them, while temporaries of both classes are
\* in use.
C38_Witness ==
    /\ mLast.op = "acquire"
    /\ mLast.out = "ok"
    /\ Len(mHeld) = 2
    /\ HeldRegs("GPR") = ValueGprs
    /\ HeldRegs("XMM") # {}
    /\ \E i \in 1..Len(mHeld[2]) : mHeld[2][i].kind = "Memory"
    /\ \E i \in 1..Len(mHeld[1]) : mHeld[1][i].kind = "Memory"
    /\ "RCX" \in used_gprs
    /\ "XMM0" \in used_xmms

-----------------------------------------------------------------------------
(* SpecRelease: release_locations called as the code generator calls it,   *)
(* on the newest list it holds, and called out of turn: on an older list   *)
(* while a newer one is held, and on the list released last once more.     *)

\* machine.release_locations(assembler, locs) on the oldest list held while
\* a newer one holds locations too; the list is given up if the call
\* returns.
ReleaseOutOfOrder ==
    /\ mLast.out # "panic"
    /\ Len(mHeld) > 1
    /\ mHeld[1] # <<>>
    /\ mHeld[Len(mHeld)] # <<>>
    /\ LET locs == mHeld[1]
           r == release_locations(Cur, locs)
       IN  /\ SetMachine(r.m)
           /\ rsp_sub' = rsp_sub - r.add
           /\ mHeld' = IF r.panic THEN mHeld ELSE Tail(mHeld)
           /\ mLast' = Called("release_out_of_order", r.panic, Cur, locs, FALSE)
    /\ UNCHANGED machineOthers

\* machine.release_locations(assembler, locs) on the list that the last
\* call released.
ReleaseTwice ==
    /\ mLast.out # "panic"
    /\ mLast.op \in {"release", "release_out_of_order"}
    /\ mLast.locs # <<>>
    /\ LET r == release_locations(Cur, mLast.locs)
       IN  /\ SetMachine(r.m)
           /\ rsp_sub' = rsp_sub - r.add
           /\ mLast' = Called("release_twice", r.panic, Cur, mLast.locs, FALSE)
    /\ UNCHANGED <<mHeld, machineOthers>>

NextRelease ==
    \/ \E tys \in TypeLists : AcquireLocations(tys)
    \/ ReleaseLocations
    \/ ReleaseOutOfOrder
    \/ ReleaseTwice
    \/ AcquireTempGpr
    \/ \E gpr \in {"RAX", "RCX", "RDX"} : ReleaseTempGpr(gpr)

SpecRelease == InitMachine /\ [][NextRelease]_vars

\* C30: a release_locations call on a list that is not the newest one
\* held, or on a list that was released already, fails an assertion and
\* leaves the used-register sets and the stack offset as they were.
C30_LifoEnforced ==
    mLast.op \in {"release_out_of_order", "release_twice"} =>
        (mLast.out = "panic" /\ Cur = mLast.before)

\* The registers acquire_locations hands out, by class, in the order of
\* preference.
ValueRegisters(class) ==
    IF class = "XMM" THEN <<"XMM3", "XMM4", "XMM5", "XMM6", "XMM7">>
    ELSE <<"RSI", "RDI", "R8", "R9", "R10", "R11">>

\* The register class of a value type.
ClassOf(ty) == IF ty \in {"F32", "F64"} THEN "XMM" ELSE "GPR"

\* locs is what a machine in state m must return for tys: for the i-th
\* type the first register of its class, in the order of preference, that
\* neither m nor an earlier location of the list uses, and when there is
\* none the next 8-byte slot below the tracked offset.
PickedInOrder(m, tys, locs) ==
    /\ Len(locs) = Len(tys)
    /\ \A i \in 1..Len(tys) :
        LET class == ClassOf(tys[i])
            regs == ValueRegisters(class)
            taken == (IF class = "XMM" THEN m.used_xmms ELSE m.used_gprs)
                     \cup {locs[j].reg : j \in {k \in 1..(i - 1) : locs[k].kind = class}}
            free == {k \in 1..Len(regs) : regs[k] \notin taken}
            slots == Cardinality({j \in 1..i : locs[j].kind = "Memory"})
        IN  IF free # {}
            THEN /\ locs[i].kind = class
                 /\ \E k \in free : locs[i].reg = regs[k] /\ \A j \in free : k <= j
            ELSE locs[i] = Memory("RBP", -(m.stack_offset + 8 * slots))

\* C31: acquire_locations returns, for each type in order, the first free
\* register of the type's class in the order RSI, RDI, R8, R9, R10, R11 or
\* XMM3 to XMM7, and a fresh 8-byte stack slot only when the class has no
\* free register; the machine state and the type list determine the result.
C31_FirstFreeRegister ==
    [][\A tys \in TypeLists :
          (AcquireLocations(tys) /\ mLast'.out = "ok")
              => PickedInOrder(Cur, tys, mLast'.locs)]_vars

\* An acquire on a machine whose first register was free while the second
\* was in use returned the first register, later registers and stack
\* slots.
C31_Witness ==
    /\ mLast.op = "acquire"
    /\ mLast.out = "ok"
    /\ "RSI" \notin mLast.before.used_gprs
    /\ "RDI" \in mLast.before.used_gprs
    /\ Len(mLast.locs) > 1
    /\ mLast.locs[1] = GPR("RSI")
    /\ \E i \in 1..Len(mLast.locs) : mLast.locs[i].kind = "Memory"
    /\ \E i \in 1..Len(mLast.locs) : mLast.locs[i].kind = "XMM"

-----------------------------------------------------------------------------
(* SpecExport: the exports of one instance, those its host looks up and    *)
(* those kept in the instance's own host environment (the                  *)
(* #[wasmer(export)] fields of a WasmerEnv), and their clones.             *)

\* An export and the kind of reference it holds on its instance.
Export(kind, instance_ref) == [kind |-> kind, instance_ref |-> instance_ref]

\* instance.lookup(name), lookup_function(name): an export handed to the
\* host holds its instance strongly.
Instance_lookup(kind) == Export(kind, "Strong")

\* WasmerEnv::init_with_instance: an export stored in the instance's own
\* environment holds the instance weakly.
init_with_instance(kind) == Export(kind, "Weak")

\* A clone that copies the reference as it is.
Export_clone_derived(e) == e

\* Clone of an export: the clone's reference is upgraded to a strong one.
Export_clone(e) == [e EXCEPT !.instance_ref = "Strong"]

InitExport ==
    /\ InitExportIdle
    /\ InitSigIdle /\ InitGuestIdle /\ InitLoadIdle /\ InitSerIdle /\ InitCompileIdle
    /\ InitInstIdle
    /\ InitMachineIdle
    /\ InitEngineIdle
    /\ InitIndexIdle
    /\ InitCpuIdle /\ InitPsmIdle

\* Instance::new(module, imports) with a host function whose env has an
\* export field for each kind of ks.
InstanceNew(ks) ==
    /\ xLast.op = "none"
    /\ xEnv' = [k \in ExportKinds |-> IF k \in ks THEN {init_with_instance(k)} ELSE {}]
    /\ xLast' = [NoExportCall EXCEPT !.op = "new"]
    /\ UNCHANGED <<xHeld, exportOthers>>

\* The host looks an export up.
HostLookup(kind) ==
    /\ xLast.op # "none"
    /\ xHeld' = xHeld \cup {Instance_lookup(kind)}
    /\ xLast' = [op |-> "lookup", given |-> {}, left |-> {},
                 out |-> {Instance_lookup(kind)}]
    /\ UNCHANGED <<xEnv, exportOthers>>

\* The host clones an export it holds and keeps the clone.
HostClone(e) ==
    /\ e \in xHeld
    /\ xHeld' = xHeld \cup {Export_clone(e)}
    /\ xLast' = [op |-> "clone", given |-> {e}, left |-> {e} \cap xHeld',
                 out |-> {Export_clone(e)}]
    /\ UNCHANGED <<xEnv, exportOthers>>

\* The host drops an export it holds.
HostDrop(e) ==
    /\ e \in xHeld
    /\ xHeld' = xHeld \ {e}
    /\ xLast' = [op |-> "drop", given |-> {e}, left |-> {}, out |-> {}]
    /\ UNCHANGED <<xEnv, exportOthers>>

\* The host function, called by the guest, clones the export of its env
\* and drops the clone when it returns.
EnvClone(kind) ==
    /\ xEnv[kind] # {}
    /\ xLast' = [op |-> "clone", given |-> xEnv[kind], left |-> xEnv[kind],
                 out |-> {Export_clone(e) : e \in xEnv[kind]}]
    /\ UNCHANGED <<xEnv, xHeld, exportOthers>>

NextExport ==
    \/ \E ks \in SUBSET ExportKinds : InstanceNew(ks)
    \/ \E kind \in ExportKinds : HostLookup(kind)
    \/ \E kind \in ExportKinds : \E r \in {"Strong", "Weak"} :
            HostClone(Export(kind, r))
    \/ \E kind \in ExportKinds : \E r \in {"Strong", "Weak"} :
            HostDrop(Export(kind, r))
    \/ \E kind \in ExportKinds : EnvClone(kind)

SpecExport == InitExport /\ [][NextExport]_vars

\* C28: for memories, tables, globals and functions, an export the host
\* obtained holds a strong reference to its instance, an export stored in
\* the instance's own host env holds a weak one, and a clone of either is
\* an export of the same kind with a strong reference, the original being
\* left as it was.
C28_StrongWeak ==
    /\ \A e \in xHeld : e.instance_ref = "Strong"
    /\ \A k \in ExportKinds : \A e \in xEnv[k] :
          e.instance_ref = "Weak" /\ e.kind = k
    /\ xLast.op = "clone" =>
          /\ xLast.left = xLast.given
          /\ \A o \in xLast.out : o.instance_ref = "Strong"
          /\ {o.kind : o \in xLast.out} = {g.kind : g \in xLast.given}

\* The env holds an export of every kind, the host holds one of every
\* kind, and the weak function export of the env was just cloned.
C28_Witness ==
    /\ \A k \in ExportKinds : xEnv[k] # {}
    /\ {e.kind : e \in xHeld} = ExportKinds
    /\ xLast.op = "clone"
    /\ xLast.given = {Export("function", "Weak")}
    /\ xLast.out = {Export("function", "Strong")}

-----------------------------------------------------------------------------
(* SpecIndex: the conversions between the local and the full index spaces  *)
(* of a ModuleInfo, for functions, tables, memories and globals.           *)
(*                                                                         *)
(* The entities of a module are keyed by 32-bit indices, the imported ones *)
(* first: import_counts.X plus the number of local entities is at most     *)
(* U32_MAX, and so is every full index.                                    *)

\* Convert a LocalFunctionIndex into a FunctionIndex.
func_index(m, local_func) == m.import_counts.functions + local_func

\* A conversion that stops at zero.
local_func_index_saturating(m, index) ==
    IF index >= m.import_counts.functions
    THEN {index - m.import_counts.functions}
    ELSE {0}

\* Convert a FunctionIndex into a LocalFunctionIndex: checked_sub of the import
\* count, None for an imported function.
local_func_index(m, index) ==
    IF index >= m.import_counts.functions
    THEN {index - m.import_counts.functions}
    ELSE {}

\* Test whether the given function index is for an imported function.
is_imported_function(m, index) == index < m.import_counts.functions

\* Convert a LocalTableIndex into a TableIndex.
table_index(m, local_table) == m.import_counts.tables + local_table

\* Convert a TableIndex into a LocalTableIndex: checked_sub of the import
\* count, None for an imported table.
local_table_index(m, index) ==
    IF index >= m.import_counts.tables
    THEN {index - m.import_counts.tables}
    ELSE {}

\* Test whether the given table index is for an imported table.
is_imported_table(m, index) == index < m.import_counts.tables

\* Convert a LocalMemoryIndex into a MemoryIndex.
memory_index(m, local_memory) == m.import_counts.memories + local_memory

\* Convert a MemoryIndex into a LocalMemoryIndex: checked_sub of the import
\* count, None for an imported memory.
local_memory_index(m, index) ==
    IF index >= m.import_counts.memories
    THEN {index - m.import_counts.memories}
    ELSE {}

\* Test whether the given memory index is for an imported memory.
is_imported_memory(m, index) == index < m.import_counts.memories

\* Convert a LocalGlobalIndex into a GlobalIndex.
global_index(m, local_global) == m.import_counts.globals + local_global

\* Convert a GlobalIndex into a LocalGlobalIndex: checked_sub of the import
\* count, None for an imported global.
local_global_index(m, index) ==
    IF index >= m.import_counts.globals
    THEN {index - m.import_counts.globals}
    ELSE {}

\* Test whether the given global index is for an imported global.
is_imported_global(m, index) == index < m.import_counts.globals

IndexKinds == {"functions", "tables", "memories", "globals"}

\* X_index of the kind.
to_full(m, kind, local) ==
    CASE kind = "functions" -> func_index(m, local)
      [] kind = "tables" -> table_index(m, local)
      [] kind = "memories" -> memory_index(m, local)
      [] kind = "globals" -> global_index(m, local)

\* local_X_index of the kind.
to_local(m, kind, index) ==
    CASE kind = "functions" -> local_func_index(m, index)
      [] kind = "tables" -> local_table_index(m, index)
      [] kind = "memories" -> local_memory_index(m, index)
      [] kind = "globals" -> local_global_index(m, index)

\* is_imported_X of the kind.
is_imported(m, kind, index) ==
    CASE kind = "functions" -> is_imported_function(m, index)
      [] kind = "tables" -> is_imported_table(m, index)
      [] kind = "memories" -> is_imported_memory(m, index)
      [] kind = "globals" -> is_imported_global(m, index)

\* The ModuleInfo at hand.
Module == [import_counts |-> import_counts]

\* The import counts of the modules looked at.
ImportCounts == [IndexKinds -> {0, 2}]

\* The local indices a module with count imports has room for.
LocalIndices(count) == 0..(U32_MAX - 1 - count)

\* The full indices.
FullIndices == 0..(U32_MAX - 1)

InitIndex ==
    /\ import_counts \in ImportCounts
    /\ ixLast = NoConversion
    /\ InitSigIdle /\ InitGuestIdle /\ InitLoadIdle /\ InitSerIdle /\ InitCompileIdle
    /\ InitInstIdle
    /\ InitMachineIdle
    /\ InitEngineIdle
    /\ InitExportIdle
    /\ InitCpuIdle /\ InitPsmIdle

\* module.X_index(local)
ToFull(kind, local) ==
    /\ local \in LocalIndices(import_counts[kind])
    /\ ixLast' = [op |-> "index", kind |-> kind, arg |-> local,
                  out |-> {to_full(Module, kind, local)},
                  imported |-> is_imported(Module, kind, to_full(Module, kind, local))]
    /\ UNCHANGED <<import_counts, indexOthers>>

\* module.local_X_index(index) and module.is_imported_X(index)
ToLocal(kind, index) ==
    /\ ixLast' = [op |-> "local", kind |-> kind, arg |-> index,
                  out |-> to_local(Module, kind, index),
                  imported |-> is_imported(Module, kind, index)]
    /\ UNCHANGED <<import_counts, indexOthers>>

NextIndex ==
    \/ \E kind \in IndexKinds : \E local \in FullIndices : ToFull(kind, local)
    \/ \E kind \in IndexKinds : \E index \in FullIndices : ToLocal(kind, index)

SpecIndex == InitIndex /\ [][NextIndex]_vars

\* C29: for functions, tables, memories and globals, X_index maps the
\* local indices one-to-one onto the full indices that are at least
\* import_counts.X, local_X_index is its inverse, and local_X_index(f) is
\* None exactly when is_imported_X(f), that is when f < import_counts.X.
C29_LocalFullBijection ==
    /\ ixLast.op = "index" =>
          /\ \A f \in ixLast.out :
                /\ f >= import_counts[ixLast.kind]
                /\ to_local(Module, ixLast.kind, f) = {ixLast.arg}
                /\ \A l \in LocalIndices(import_counts[ixLast.kind]) :
                      to_full(Module, ixLast.kind, l) = f => l = ixLast.arg
          /\ ~ixLast.imported
    /\ ixLast.op = "local" =>
          /\ (ixLast.out = {}) <=> ixLast.imported
          /\ ixLast.imported <=> (ixLast.arg < import_counts[ixLast.kind])
          /\ \A l \in ixLast.out :
                /\ l \in LocalIndices(import_counts[ixLast.kind])
                /\ to_full(Module, ixLast.kind, l) = ixLast.arg
          /\ ixLast.arg >= import_counts[ixLast.kind] =>
                \E l \in LocalIndices(import_counts[ixLast.kind]) :
                    to_full(Module, ixLast.kind, l) = ixLast.arg

\* In a module that imports functions but no tables, the full index of an
\* imported function was just converted.
C29_Witness ==
    /\ import_counts.functions > 0
    /\ import_counts.tables = 0
    /\ ixLast.op = "local"
    /\ ixLast.kind = "functions"
    /\ ixLast.arg = import_counts.functions - 1
    /\ ixLast.out = {}

-----------------------------------------------------------------------------
(* SpecPrologue: the code init_locals and finalize_locals emit for one     *)
(* function, run on a processor.                                           *)
(*                                                                         *)
(* The function is entered with rbp = rsp (push rbp; mov rbp, rsp are      *)
(* emitted before init_locals) and a fresh Machine.  Addresses are         *)
(* displacements from rbp; a register or a stack word the caller filled    *)
(* holds the token <<"in", place>>, a word nobody wrote yet holds "junk".  *)

\* Bound: the number of locals of the small functions.
MaxLocals == 8

NATIVE_PAGE_SIZE == 4096

Imm(v) == [kind |-> "Imm", reg |-> "none", disp |-> v]

Ins(op, src, dst) == [op |-> op, src |-> src, dst |-> dst]

\* A get_local_location that starts the stack locals at the static area's
\* end address.
get_local_location_overlapping(locals_off, idx) ==
    IF idx < Len(LOCAL_REGISTERS)
    THEN GPR(LOCAL_REGISTERS[idx + 1])
    ELSE Memory("RBP", -((idx - Len(LOCAL_REGISTERS)) * 8 + locals_off - 8))

\* machine.get_local_location(idx), for a Machine whose locals_offset is
\* locals_off: the first locals are in LOCAL_REGISTERS, the others in
\* 8-byte slots below rbp.
get_local_location(locals_off, idx) ==
    IF idx < Len(LOCAL_REGISTERS)
    THEN GPR(LOCAL_REGISTERS[idx + 1])
    ELSE Memory("RBP", -((idx - Len(LOCAL_REGISTERS)) * 8 + locals_off))

\* Machine::get_param_location(idx, calling_convention)
get_param_location(idx, calling_convention) ==
    IF calling_convention = "WindowsFastcall"
    THEN CASE idx = 0 -> GPR("RCX")
           [] idx = 1 -> GPR("RDX")
           [] idx = 2 -> GPR("R8")
           [] idx = 3 -> GPR("R9")
           [] OTHER -> Memory("RBP", 16 + 32 + (idx - 4) * 8)
    ELSE CASE idx = 0 -> GPR("RDI")
           [] idx = 1 -> GPR("RSI")
           [] idx = 2 -> GPR("RDX")
           [] idx = 3 -> GPR("RCX")
           [] idx = 4 -> GPR("R8")
           [] idx = 5 -> GPR("R9")
           [] OTHER -> Memory("RBP", 16 + (idx - 6) * 8)

\* Moves from the local to the parameter's place.
param_moves_backwards(locals_off, i, calling_convention) ==
    LET loc == get_param_location(i + 1, calling_convention)
        local_loc == get_local_location(locals_off, i)
    IN  <<Ins("mov", local_loc, loc)>>

\* The moves that bring parameter i to its local.
param_moves(locals_off, i, calling_convention) ==
    LET loc == get_param_location(i + 1, calling_convention)
        local_loc == get_local_location(locals_off, i)
    IN  IF loc.kind = "Memory" /\ local_loc.kind = "Memory"
        THEN <<Ins("mov", loc, GPR("RAX")), Ins("mov", GPR("RAX"), local_loc)>>
        ELSE <<Ins("mov", loc, local_loc)>>

\* The instructions init_locals(a, n, n_params, calling_convention) emits
\* on a fresh Machine, in order.
init_locals_emit(n, n_params, calling_convention) ==
    LET m == init_locals(Machine_new, n, calling_convention)
        regs == Min(Len(LOCAL_REGISTERS), n)
        windows == calling_convention = "WindowsFastcall"
        stack_loc_idxs == n - Min(n, Max(Len(LOCAL_REGISTERS), n_params))
        step == NATIVE_PAGE_SIZE \div 8
        probes == (n - 1 - n_params) \div step
    IN  <<Ins("sub", Imm(m.sub), GPR("RSP"))>>
        \o [k \in 1..regs |->
              Ins("mov", GPR(LOCAL_REGISTERS[k]), Memory("RBP", -(8 * k)))]
        \o <<Ins("mov", GPR("R15"), Memory("RBP", -(8 * (regs + 1))))>>
        \o (IF windows
            THEN <<Ins("mov", GPR("RDI"), Memory("RBP", -(8 * (regs + 2)))),
                   Ins("mov", GPR("RSI"), Memory("RBP", -(8 * (regs + 3))))>>
            ELSE <<>>)
        \o Flatten([k \in 1..n_params |->
                      param_moves(m.locals_offset, k - 1, calling_convention)])
        \o <<Ins("mov", get_param_location(0, calling_convention), GPR("R15"))>>
        \o [k \in 1..(IF n > n_params THEN probes ELSE 0) |->
              Ins("mov", Imm(0), get_local_location(m.locals_offset, n_params + k * step))]
        \o [k \in 1..(regs - Min(regs, n_params)) |->
              Ins("mov", Imm(0), GPR(LOCAL_REGISTERS[Min(regs, n_params) + k]))]
        \o (IF stack_loc_idxs > 0
            THEN <<Ins("mov", Imm(stack_loc_idxs), GPR("RCX")),
                   Ins("xor", GPR("RAX"), GPR("RAX")),
                   Ins("lea", get_local_location(m.locals_offset, n - 1), GPR("RDI")),
                   Ins("rep_stosq", Imm(0), Imm(0))>>
            ELSE <<>>)

\* An epilogue that pops the local registers first to last.
finalize_locals_emit_forward(save_area, calling_convention, local_count) ==
    <<Ins("lea", Memory("RBP", -save_area), GPR("RSP"))>>
    \o (IF calling_convention = "WindowsFastcall"
        THEN <<Ins("pop", Imm(0), GPR("RSI")), Ins("pop", Imm(0), GPR("RDI"))>>
        ELSE <<>>)
    \o <<Ins("pop", Imm(0), GPR("R15"))>>
    \o [k \in 1..Min(Len(LOCAL_REGISTERS), local_count) |->
          Ins("pop", Imm(0), GPR(LOCAL_REGISTERS[k]))]

\* The instructions finalize_locals(a, calling_convention, local_count)
\* emits on a Machine whose save_area_offset is Some(save_area).
finalize_locals_emit(save_area, calling_convention, local_count) ==
    <<Ins("lea", Memory("RBP", -save_area), GPR("RSP"))>>
    \o (IF calling_convention = "WindowsFastcall"
        THEN <<Ins("pop", Imm(0), GPR("RSI")), Ins("pop", Imm(0), GPR("RDI"))>>
        ELSE <<>>)
    \o <<Ins("pop", Imm(0), GPR("R15"))>>
    \o [k \in 1..Min(Len(LOCAL_REGISTERS), local_count) |->
          Ins("pop", Imm(0),
              GPR(LOCAL_REGISTERS[Min(Len(LOCAL_REGISTERS), local_count) + 1 - k]))]

\* The general-purpose registers other than rsp and rbp.
Registers ==
    {"RAX", "RCX", "RDX", "RBX", "RSI", "RDI", "R8", "R9", "R10", "R11", "R12",
     "R13", "R14", "R15"}

\* A 64-bit word: the number n, the address rbp + n, what the caller left
\* in a register or in the stack word at rbp + n, what the body left, or
\* what nobody wrote.
Word(tag, reg, n) == [tag |-> tag, reg |-> reg, n |-> n]

\* What a location holds.
Val(c, loc) ==
    CASE loc.kind = "GPR" -> c.regs[loc.reg]
      [] loc.kind = "Memory" -> c.mem[loc.disp]
      [] loc.kind = "Imm" -> Word("imm", "none", loc.disp)

\* The processor after one instruction.
Exec(c, ins) ==
    CASE ins.op = "sub" -> [c EXCEPT !.rsp = @ - ins.src.disp]
      [] ins.op = "mov" ->
           IF ins.dst.kind = "GPR"
           THEN [c EXCEPT !.regs[ins.dst.reg] = Val(c, ins.src)]
           ELSE [c EXCEPT !.mem[ins.dst.disp] = Val(c, ins.src)]
      [] ins.op = "xor" -> [c EXCEPT !.regs[ins.dst.reg] = Word("imm", "none", 0)]
      [] ins.op = "lea" ->
           IF ins.dst.reg = "RSP"
           THEN [c EXCEPT !.rsp = ins.src.disp]
           ELSE [c EXCEPT !.regs[ins.dst.reg] = Word("rbp", "none", ins.src.disp)]
      [] ins.op = "rep_stosq" ->
           LET base == c.regs["RDI"].n
               count == c.regs["RCX"].n
           IN  [c EXCEPT
                  !.mem = [d \in DOMAIN c.mem |->
                             IF d >= base /\ d < base + 8 * count
                             THEN c.regs["RAX"] ELSE c.mem[d]],
                  !.regs["RDI"] = Word("rbp", "none", base + 8 * count),
                  !.regs["RCX"] = Word("imm", "none", 0)]
      [] ins.op = "pop" ->
           [c EXCEPT !.regs[ins.dst.reg] = c.mem[c.rsp], !.rsp = @ + 8]

\* The local and parameter counts of the functions compiled: the small
\* ones, and one whose locals go beyond a page.
LocalParamCounts ==
    {<<n, n_params>> \in (0..MaxLocals) \X (0..MaxLocals) : n_params <= n}
    \cup {<<NATIVE_PAGE_SIZE \div 8 + 3, 1>>}

\* The processor when the function is entered: every register and every
\* word of the caller's frame holds what the caller put there.
Entry(n) ==
    [phase |-> "run",
     regs |-> [r \in Registers |-> Word("in", r, 0)],
     mem |-> [d \in {8 * k : k \in 2..(n + 6)} \cup {-(8 * k) : k \in 1..(n + 8)} |->
                IF d > 0 THEN Word("in", "none", d) ELSE Word("junk", "none", 0)],
     rsp |-> 0,
     pc |-> 1]

InitPrologue ==
    /\ pfn = [phase |-> "none"]
    /\ pcpu = [phase |-> "none"]
    /\ InitPsmIdle
    /\ InitSigIdle /\ InitGuestIdle /\ InitLoadIdle /\ InitSerIdle /\ InitCompileIdle
    /\ InitInstIdle
    /\ InitMachineIdle
    /\ InitEngineIdle
    /\ InitExportIdle
    /\ InitIndexIdle

\* machine.init_locals(a, n, n_params, calling_convention) at the head of
\* a function, and the function is entered.
EmitPrologue(n, n_params, calling_convention) ==
    /\ pfn.phase = "none"
    /\ LET m == init_locals(Machine_new, n, calling_convention) IN
        pfn' = [phase |-> "prologue", n |-> n, n_params |-> n_params,
                calling_convention |-> calling_convention,
                save_area_offset |-> m.save_area_offset,
                locals_offset |-> m.locals_offset,
                code |-> init_locals_emit(n, n_params, calling_convention)]
    /\ pcpu' = Entry(n)
    /\ UNCHANGED cpuOthers

\* The processor runs the next instruction of the code emitted.
Step ==
    /\ pfn.phase \in {"prologue", "epilogue"}
    /\ pcpu.pc <= Len(pfn.code)
    /\ pcpu' = [Exec(pcpu, pfn.code[pcpu.pc]) EXCEPT !.pc = pcpu.pc + 1]
    /\ UNCHANGED <<pfn, cpuOthers>>

\* The function's body runs: it may leave anything in any register and in
\* the frame below the save area.
Body ==
    /\ pfn.phase = "prologue"
    /\ pcpu.pc > Len(pfn.code)
    /\ pfn' = [pfn EXCEPT !.phase = "body"]
    /\ pcpu' = [pcpu EXCEPT
                  !.regs = [r \in Registers |-> Word("body", "none", 0)],
                  !.mem = [d \in DOMAIN pcpu.mem |->
                             IF d < 0 /\ \A s \in pfn.save_area_offset : d < -s
                             THEN Word("body", "none", 0) ELSE pcpu.mem[d]]]
    /\ UNCHANGED cpuOthers

\* machine.finalize_locals(a, calling_convention, local_count) at the
\* function's end, and the processor reaches it.
EmitEpilogue(local_count) ==
    /\ pfn.phase = "body"
    /\ local_count = pfn.n
    /\ \E save_area \in pfn.save_area_offset :
          pfn' = [pfn EXCEPT
                    !.phase = "epilogue",
                    !.code = finalize_locals_emit(save_area, pfn.calling_convention,
                                                  local_count)]
    /\ pcpu' = [pcpu EXCEPT !.pc = 1]
    /\ UNCHANGED cpuOthers

NextPrologue ==
    \/ \E c \in LocalParamCounts : \E cc \in CallingConventions :
          EmitPrologue(c[1], c[2], cc)
    \/ Step
    \/ Body
    \/ \E local_count \in 0..(NATIVE_PAGE_SIZE \div 8 + 3) : EmitEpilogue(local_count)

SpecPrologue == InitPrologue /\ [][NextPrologue]_vars

\* What the caller passed as argument idx.
Incoming(idx, calling_convention) ==
    LET loc == get_param_location(idx, calling_convention)
    IN  IF loc.kind = "GPR" THEN Word("in", loc.reg, 0) ELSE Word("in", "none", loc.disp)

\* Where the prologue brings argument idx: the vmctx to R15, parameter i
\* to local i.
Destination(idx) ==
    IF idx = 0 THEN GPR("R15") ELSE get_local_location(pfn.locals_offset, idx - 1)

PrologueDone == pfn.phase = "prologue" /\ pcpu.pc > Len(pfn.code)

\* C32: when the prologue init_locals(n, n_params, cc) emitted has run,
\* every parameter i < n_params is in the location of local i with the
\* value the caller passed, every local in [n_params, n) is zero and R15
\* holds the vmctx; and while it runs every argument not yet copied is
\* still where the caller put it.
C32_PrologueState ==
    pfn.phase = "prologue" =>
      /\ \A idx \in 0..pfn.n_params :
            \/ Val(pcpu, get_param_location(idx, pfn.calling_convention))
                 = Incoming(idx, pfn.calling_convention)
            \/ Val(pcpu, Destination(idx)) = Incoming(idx, pfn.calling_convention)
      /\ PrologueDone =>
            /\ \A idx \in 0..pfn.n_params :
                  Val(pcpu, Destination(idx)) = Incoming(idx, pfn.calling_convention)
            /\ \A i \in pfn.n_params..(pfn.n - 1) :
                  Val(pcpu, get_local_location(pfn.locals_offset, i))
                    = Word("imm", "none", 0)

\* A function with parameters in registers and on the stack, locals in
\* registers and on the stack, whose prologue has run.
C32_Witness ==
    /\ PrologueDone
    /\ pfn.n_params = 7
    /\ pfn.n = 8
    /\ pfn.calling_convention = "WindowsFastcall"

\* The registers init_locals saves for a function of n locals.
CalleeSaved(n, calling_convention) ==
    {LOCAL_REGISTERS[k] : k \in 1..Min(Len(LOCAL_REGISTERS), n)} \cup {"R15"}
    \cup (IF calling_convention = "WindowsFastcall" THEN {"RDI", "RSI"} ELSE {})

EpilogueDone == pfn.phase = "epilogue" /\ pcpu.pc > Len(pfn.code)

\* C33: the epilogue finalize_locals emits, for the local count and the
\* convention init_locals was called with, pops every callee-saved
\* register (the LOCAL_REGISTERS holding locals, R15, and RDI and RSI
\* under Windows) from the slot init_locals saved it in: each pop reads
\* the word saved from the register it loads, and at the end every one of
\* these registers holds what the caller left in it.
C33_EpilogueRestores ==
    pfn.phase = "epilogue" =>
      /\ pcpu.pc <= Len(pfn.code) /\ pfn.code[pcpu.pc].op = "pop" =>
            pcpu.mem[pcpu.rsp] = Word("in", pfn.code[pcpu.pc].dst.reg, 0)
      /\ EpilogueDone =>
            /\ \A r \in CalleeSaved(pfn.n, pfn.calling_convention) :
                  pcpu.regs[r] = Word("in", r, 0)
            /\ pcpu.rsp = 0

\* A Windows function with locals in all four registers and on the stack
\* has returned through its epilogue.
C33_Witness ==
    /\ EpilogueDone
    /\ pfn.n = 6
    /\ pfn.calling_convention = "WindowsFastcall"
    /\ pcpu.regs["RBX"] = Word("in", "RBX", 0)

-----------------------------------------------------------------------------
(* SpecPsm: calls of push, max_index and find on one PartialSumMap<u32, V>. *)
(* u32 has the modelled index width, U32_MAX = 2^IndexBits - 1.             *)

\* Bound: the number of runs the map grows to.
MaxKeys == 2

\* The values pushed.
PsmValues == {1, 2}

\* The counts pushed: none, short runs, and runs that fill the index space
\* or all of it but one index.
PushCounts == {0, 1, 2, U32_MAX - 1, U32_MAX}

\* A step that wraps around.
u32_step_wrapping(k, count) ==
    [err |-> "none", key |-> (k + count) % (U32_MAX + 1)]

\* <u32 as PartialSumKey>::step: checked_add, or Error::Overflow.
u32_step(k, count) ==
    IF k + count > U32_MAX THEN [err |-> "Overflow", key |-> 0]
    ELSE [err |-> "none", key |-> k + count]

\* <u32 as PartialSumKey>::first_index, called with a count above zero.
u32_first_index(count) == count - 1

\* map.max_index(): the last key, None for an empty map.
PartialSumMap_max_index(map) ==
    IF map.keys = <<>> THEN {} ELSE {map.keys[Len(map.keys)]}

\* map.push(count, value): the map after, and the error returned.  The key
\* is computed before anything is pushed, and ? returns on its error.
PartialSumMap_push(map, count, value) ==
    IF count # 0
    THEN LET key == IF PartialSumMap_max_index(map) = {}
                    THEN [err |-> "none", key |-> u32_first_index(count)]
                    ELSE u32_step(map.keys[Len(map.keys)], count)
         IN  IF key.err # "none"
             THEN [map |-> map, err |-> key.err]
             ELSE [map |-> [keys |-> Append(map.keys, key.key),
                            values |-> Append(map.values, value)],
                   err |-> "none"]
    ELSE [map |-> map, err |-> "none"]

\* keys.binary_search(&index) on keys in strictly rising order: Ok(i) of
\* the key equal to index, or Err(i) of the place index would be inserted
\* at; both are the number of keys below index.
binary_search(keys, index) == Cardinality({k \in 1..Len(keys) : keys[k] < index})

\* map.find(index): values.get(i) of the place the search gives.
PartialSumMap_find(map, index) ==
    LET pos == binary_search(map.keys, index)
    IN  IF pos < Len(map.values) THEN {map.values[pos + 1]} ELSE {}

InitPsm ==
    /\ psm = PartialSumMap_new
    /\ psmLast = NoPsmCall
    /\ InitSigIdle /\ InitGuestIdle /\ InitLoadIdle /\ InitSerIdle /\ InitCompileIdle
    /\ InitInstIdle
    /\ InitMachineIdle
    /\ InitEngineIdle
    /\ InitExportIdle
    /\ InitIndexIdle
    /\ InitCpuIdle

\* map.push(count, value)
Push(count, value) ==
    LET r == PartialSumMap_push(psm, count, value) IN
    /\ Len(r.map.keys) <= MaxKeys
    /\ psm' = r.map
    /\ psmLast' = [op |-> "push", arg |-> count, value |-> value, out |-> {},
                   err |-> r.err, before |-> psm,
                   pushes |-> IF count # 0 /\ r.err = "none"
                              THEN Append(psmLast.pushes, <<count, value>>)
                              ELSE psmLast.pushes]
    /\ UNCHANGED psmOthers

\* map.find(index)
Find(index) ==
    /\ psmLast' = [psmLast EXCEPT !.op = "find", !.arg = index, !.value = 0,
                                  !.out = PartialSumMap_find(psm, index),
                                  !.err = "none", !.before = psm]
    /\ UNCHANGED <<psm, psmOthers>>

\* map.max_index()
MaxIndex ==
    /\ psmLast' = [psmLast EXCEPT !.op = "max_index", !.arg = 0, !.value = 0,
                                  !.out = PartialSumMap_max_index(psm),
                                  !.err = "none", !.before = psm]
    /\ UNCHANGED <<psm, psmOthers>>

NextPsm ==
    \/ \E count \in PushCounts : \E value \in PsmValues : Push(count, value)
    \/ \E index \in 0..U32_MAX : Find(index)
    \/ MaxIndex

SpecPsm == InitPsm /\ [][NextPsm]_vars

\* The number of indices the pushes made so far gave values to.
RECURSIVE Pushed(_)
Pushed(pushes) == IF pushes = <<>> THEN 0 ELSE Head(pushes)[1] + Pushed(Tail(pushes))

\* The value of the push whose run of indices contains index, None when
\* no run does: the runs follow each other from index 0 in push order.
RECURSIVE ValueAt(_, _)
ValueAt(pushes, index) ==
    IF pushes = <<>> THEN {}
    ELSE IF index < Head(pushes)[1] THEN {Head(pushes)[2]}
    ELSE ValueAt(Tail(pushes), index - Head(pushes)[1])

SaveSlots(n, calling_convention) ==
    LET code == init_locals_emit(n, 0, calling_convention)
    IN  {-(code[k].dst.disp) :
           k \in 2..(1 + Cardinality(CalleeSaved(n, calling_convention)))}

\* The frame slots of the locals that are not in registers.
LocalSlots(n) ==
    {-(get_local_location(locals_offset, i).disp) :
       i \in {j \in 0..(n - 1) : get_local_location(locals_offset, j).kind = "Memory"}}

\* The frame slots among the locations held.
SpillSlots ==
    {-(HeldLocs[i].disp) : i \in {j \in 1..Len(HeldLocs) : HeldLocs[j].kind = "Memory"}}

\* C39: in the frame of one function the slots of the registers saved by
\* init_locals, the slots of the stack locals and the spill slots given
\* out by acquire_locations afterwards share no slot, and get_local_location
\* gives different locations for different local indices below n.  (A call
\* that panics ends the compilation.)
C39_FrameSlotsDisjoint ==
    (pfn.phase = "compiling" /\ mLast.out # "panic") =>
      LET n == pfn.n
          saves == SaveSlots(n, pfn.calling_convention)
      IN  /\ saves \cap LocalSlots(n) = {}
          /\ saves \cap SpillSlots = {}
          /\ LocalSlots(n) \cap SpillSlots = {}
          /\ \A i, j \in 0..(n - 1) :
                i # j => get_local_location(locals_offset, i)
                         # get_local_location(locals_offset, j)
          /\ \A d \in saves \cup LocalSlots(n) \cup SpillSlots : d \in 8..stack_offset
          /\ Cardinality(saves) = Cardinality(CalleeSaved(n, pfn.calling_convention))

\* A Windows function with stack locals holds spill slots in two lists.
C39_Witness ==
    /\ pfn.phase = "compiling"
    /\ pfn.n > Len(LOCAL_REGISTERS)
    /\ pfn.calling_convention = "WindowsFastcall"
    /\ mLast.out = "ok"
    /\ Len(mHeld) = 2
    /\ Cardinality(SpillSlots) > 2

=============================================================================
